---------------------------- MODULE Spec2Model ----------------------------
(***************************************************************************)
(* A model of lightning-mini-peer: the wire codec (serialization/           *)
(* base_types.rs, messages.rs, message_decoder.rs), the node connection    *)
(* (node_connection.rs) and the peer with its event loop (peer.rs).         *)
(*                                                                         *)
(* Byte strings are sequences of naturals in 0..255.  A Rust function that *)
(* returns Result and may panic is modelled by a record whose tag is "Ok"  *)
(* (with value and rest), "Err" (with err) or "Panic" (an unwrap on Err or *)
(* None, or a slice index out of range).                                   *)
(***************************************************************************)
EXTENDS Integers, Sequences, FiniteSets, TLC

(***************************************************************************)
(* Results                                                                 *)
(***************************************************************************)
Ok(v, r) == [tag |-> "Ok", value |-> v, rest |-> r]

Err(e) == [tag |-> "Err", err |-> e]

Panic == [tag |-> "Panic"]

\* Result::unwrap(): an Err becomes a panic.  (r is evaluated once, as x.)
Unwrap(r) == CHOOSE u \in {IF x.tag = "Err" THEN Panic ELSE x : x \in {r}} : TRUE

(***************************************************************************)
(* Byte helpers                                                            *)
(***************************************************************************)
Drop(s, n) == SubSeq(s, n + 1, Len(s))

Take(s, n) == SubSeq(s, 1, n)

\* vec![v; n]
Fill(n, v) == [i \in 1..n |-> v]

\* u16::from_be_bytes / u16::to_be_bytes
U16FromBe(b) == b[1] * 256 + b[2]

U16ToBe(n) == <<(n \div 256) % 256, n % 256>>

\* u32::from_be_bytes / u32::to_be_bytes
U32FromBe(b) == ((b[1] * 256 + b[2]) * 256 + b[3]) * 256 + b[4]

U32ToBe(n) ==
    <<(n \div 16777216) % 256, (n \div 65536) % 256, (n \div 256) % 256, n % 256>>

\* u64::from_be_bytes / u64::to_be_bytes
U64FromBe(b) ==
    ((((((b[1] * 256 + b[2]) * 256 + b[3]) * 256 + b[4]) * 256 + b[5]) * 256
        + b[6]) * 256 + b[7]) * 256 + b[8]

\* The inputs of the model keep every integer field below 2^31 (the range of
\* the model checker's integers), so the upper four bytes of a u64 are zero.
U64ToBe(n) == <<0, 0, 0, 0>> \o U32ToBe(n)

\* `as u16` on a usize
AsU16(n) == n % 65536

(***************************************************************************)
(* Wire primitives: serialization/base_types.rs                            *)
(***************************************************************************)
\* MessageTypeElement::from_bytes (MessageTypeWire in messages.rs)
MessageTypeElement_from_bytes(data) ==
    IF Len(data) < 2 THEN Err("TooFewBytes")
    ELSE Ok(U16FromBe(data), Drop(data, 2))

MessageTypeElement_to_bytes(id) == U16ToBe(id)

\* WireU16SizedBytes::new: num_bytes is data.len() as u16
WireU16SizedBytes_new(data) == [num_bytes |-> AsU16(Len(data)), value |-> data]

\* WireU16SizedBytes::from_bytes: the slice data[2..2 + num_bytes] panics when
\* fewer than num_bytes bytes follow the length.
WireU16SizedBytes_from_bytes(data) ==
    IF Len(data) < 2 THEN Err("TooFewBytes")
    ELSE LET num_bytes == U16FromBe(data) IN
         IF 2 + num_bytes > Len(data) THEN Panic
         ELSE Ok([num_bytes |-> num_bytes, value |-> SubSeq(data, 3, 2 + num_bytes)],
                 Drop(data, 2 + num_bytes))

WireU16SizedBytes_to_bytes(w) == U16ToBe(w.num_bytes) \o w.value

\* Wire1Byte::from_bytes (SingleByteWire)
Wire1Byte_from_bytes(data) ==
    IF Len(data) < 1 THEN Err("TooFewBytes")
    ELSE Ok(data[1], Drop(data, 1))

Wire1Byte_to_bytes(v) == <<v>>

\* WireU16Int::from_bytes (U16IntWire, NumPongBytesStruct)
WireU16Int_from_bytes(data) ==
    IF Len(data) < 2 THEN Err("TooFewBytes")
    ELSE Ok(U16FromBe(data), Drop(data, 2))

WireU16Int_to_bytes(v) == U16ToBe(v)

\* WireU32Int::from_bytes (U32IntWire, TimestampElement, TimestampRangeElement)
WireU32Int_from_bytes(data) ==
    IF Len(data) < 4 THEN Err("TooFewBytes")
    ELSE Ok(U32FromBe(data), Drop(data, 4))

WireU32Int_to_bytes(v) == U32ToBe(v)

\* WireU64Int::from_bytes (U64IntWire): the length test is "< 4", so 4 to 7
\* bytes pass it and data[4..7] is then indexed out of range.
WireU64Int_from_bytes(data) ==
    IF Len(data) < 4 THEN Err("TooFewBytes")
    ELSE IF Len(data) < 8 THEN Panic
    ELSE Ok(U64FromBe(data), Drop(data, 8))

WireU64Int_to_bytes(v) == U64ToBe(v)

\* decode_64_bytes, and SignatureElement::from_bytes which propagates it with ?
decode_64_bytes(data) ==
    IF Len(data) < 64 THEN Err("TooFewBytes")
    ELSE Ok(Take(data, 64), Drop(data, 64))

SignatureElement_from_bytes(data) == decode_64_bytes(data)

decode_32_bytes(data) ==
    IF Len(data) < 32 THEN Err("TooFewBytes")
    ELSE Ok(Take(data, 32), Drop(data, 32))

\* Wire32Bytes::from_bytes: decode_32_bytes(data).unwrap()
Wire32Bytes_from_bytes(data) == Unwrap(decode_32_bytes(data))

\* ChainHashElement::from_bytes: decode_32_bytes(data).unwrap()
ChainHashElement_from_bytes(data) == Unwrap(decode_32_bytes(data))

decode_33_bytes(data) ==
    IF Len(data) < 33 THEN Err("TooFewBytes")
    ELSE Ok(Take(data, 33), Drop(data, 33))

\* PointElement::from_bytes (PointElementWire): decode_33_bytes(data).unwrap()
PointElement_from_bytes(data) == Unwrap(decode_33_bytes(data))

\* Wire3Bytes::from_bytes (Bytes3Element)
Wire3Bytes_from_bytes(data) ==
    IF Len(data) < 3 THEN Err("TooFewBytes")
    ELSE Ok(Take(data, 3), Drop(data, 3))

\* RemainderTypeWire::from_bytes (TLVStreamElement): takes every byte left
RemainderTypeWire_from_bytes(data) == Ok(data, <<>>)

\* A short_channel_id decode that skips the first byte of the input
Mutant_scid_from_bytes_skips_first(data) ==
    IF Len(data) < 9 THEN Err("TooFewBytes")
    ELSE Ok([block_height |-> U32FromBe(<<0, data[2], data[3], data[4]>>),
             tx_index |-> U32FromBe(<<0, data[5], data[6], data[7]>>),
             output_index |-> U16FromBe(<<data[8], data[9]>>)],
            Drop(data, 9))

\* ShortChannelIDElement::from_bytes
ShortChannelIDElement_from_bytes(data) ==
    IF Len(data) < 8 THEN Err("TooFewBytes")
    ELSE Ok([block_height |-> U32FromBe(<<0, data[1], data[2], data[3]>>),
             tx_index |-> U32FromBe(<<0, data[4], data[5], data[6]>>),
             output_index |-> U16FromBe(<<data[7], data[8]>>)],
            Drop(data, 8))

\* A short_channel_id encode that takes the high three bytes of block and tx
Mutant_scid_to_bytes_high_bytes(s) ==
    <<U32ToBe(s.block_height)[1], U32ToBe(s.block_height)[2],
      U32ToBe(s.block_height)[3],
      U32ToBe(s.tx_index)[1], U32ToBe(s.tx_index)[2], U32ToBe(s.tx_index)[3],
      U16ToBe(s.output_index)[1], U16ToBe(s.output_index)[2]>>

\* ShortChannelIDElement::to_bytes: the low three bytes of block and tx
ShortChannelIDElement_to_bytes(s) ==
    LET block_bytes == U32ToBe(s.block_height)
        tx_bytes == U32ToBe(s.tx_index)
        output_bytes == U16ToBe(s.output_index)
    IN  <<block_bytes[2], block_bytes[3], block_bytes[4],
          tx_bytes[2], tx_bytes[3], tx_bytes[4],
          output_bytes[1], output_bytes[2]>>

\* The loop of NodeAddressesElement::from_bytes over the inner payload.  An
\* entry whose bytes are not all there panics on the slice; an IPv6 entry
\* panics always: buf[..18] is converted into a [u8; 16] and unwrapped.
RECURSIVE NodeAddresses_loop(_, _)
NodeAddresses_loop(buf, acc) ==
    IF buf = <<>> THEN [tag |-> "Ok", value |-> acc]
    ELSE LET single_byte == buf[1]
             b == Drop(buf, 1)
         IN  CASE single_byte = 1 ->
                    IF Len(b) < 6 THEN Panic
                    ELSE NodeAddresses_loop(Drop(b, 6),
                            [acc EXCEPT !.ipv4_addresses = Append(@, Take(b, 6))])
               [] single_byte = 2 -> Panic
               [] single_byte = 3 ->
                    IF Len(b) < 12 THEN Panic
                    ELSE NodeAddresses_loop(Drop(b, 12),
                            [acc EXCEPT !.torv2_addresses = Append(@, Take(b, 12))])
               [] single_byte = 4 ->
                    IF Len(b) < 37 THEN Panic
                    ELSE NodeAddresses_loop(Drop(b, 37),
                            [acc EXCEPT !.torv3_addresses = Append(@, Take(b, 37))])
               [] single_byte = 5 ->
                    NodeAddresses_loop(<<>>, [acc EXCEPT !.dns_hostname = @ \o b])
               [] OTHER -> Err("InvalidValue")

NoAddresses ==
    [ipv4_addresses |-> <<>>, ipv6_addresses |-> <<>>, torv2_addresses |-> <<>>,
     torv3_addresses |-> <<>>, dns_hostname |-> <<>>]

\* NodeAddressesElement::from_bytes: WireU16SizedBytes::from_bytes(data).unwrap()
NodeAddressesElement_from_bytes(data) ==
    LET wrapper_struct == Unwrap(WireU16SizedBytes_from_bytes(data)) IN
    IF wrapper_struct.tag # "Ok" THEN wrapper_struct
    ELSE LET r == NodeAddresses_loop(wrapper_struct.value.value, NoAddresses) IN
         IF r.tag # "Ok" THEN r ELSE Ok(r.value, wrapper_struct.rest)

\* buf.extend([tag]); buf.extend(address) for each address of a list
RECURSIVE TaggedEntries(_, _)
TaggedEntries(tag, addresses) ==
    IF addresses = <<>> THEN <<>>
    ELSE <<tag>> \o Head(addresses) \o TaggedEntries(tag, Tail(addresses))

\* NodeAddressesElement::to_bytes: the entries grouped by type, in the order
\* IPv4, IPv6, Tor v2, Tor v3, and the DNS entry only when it is not empty.
NodeAddressesElement_to_bytes(a) ==
    LET buf == TaggedEntries(1, a.ipv4_addresses)
               \o TaggedEntries(2, a.ipv6_addresses)
               \o TaggedEntries(3, a.torv2_addresses)
               \o TaggedEntries(4, a.torv3_addresses)
               \o (IF a.dns_hostname # <<>> THEN <<5>> \o a.dns_hostname ELSE <<>>)
    IN  WireU16SizedBytes_to_bytes(WireU16SizedBytes_new(buf))

\* let (v, rest) = r?; F(v, rest): an Err or a panic of r is what results
AndThen(r, F(_, _)) ==
    CHOOSE u \in {IF x.tag # "Ok" THEN x ELSE F(x.value, x.rest) : x \in {r}} : TRUE

(***************************************************************************)
(* Messages: messages.rs                                                   *)
(***************************************************************************)
\* The from_bytes of the wire type a message field is declared with.
Field_from_bytes(kind, data) ==
    CASE kind = "MessageTypeWire" -> MessageTypeElement_from_bytes(data)
      [] kind = "U16SizedBytesWire" -> WireU16SizedBytes_from_bytes(data)
      [] kind = "TLVStreamElement" -> RemainderTypeWire_from_bytes(data)
      [] kind = "U16IntWire" -> WireU16Int_from_bytes(data)
      [] kind = "U32IntWire" -> WireU32Int_from_bytes(data)
      [] kind = "U64IntWire" -> WireU64Int_from_bytes(data)
      [] kind = "SingleByteWire" -> Wire1Byte_from_bytes(data)
      [] kind = "SignatureElement" -> SignatureElement_from_bytes(data)
      [] kind = "ChainHashElement" -> ChainHashElement_from_bytes(data)
      [] kind = "Wire32Bytes" -> Wire32Bytes_from_bytes(data)
      [] kind = "PointElementWire" -> PointElement_from_bytes(data)
      [] kind = "Bytes3Element" -> Wire3Bytes_from_bytes(data)
      [] kind = "ShortChannelIDElement" -> ShortChannelIDElement_from_bytes(data)
      [] kind = "NodeAddressesWire" -> NodeAddressesElement_from_bytes(data)

\* The to_bytes of the wire type a message field is declared with.  The
\* value of a byte array is the array.
Field_to_bytes(kind, v) ==
    CASE kind = "MessageTypeWire" -> MessageTypeElement_to_bytes(v)
      [] kind = "U16SizedBytesWire" -> WireU16SizedBytes_to_bytes(v)
      [] kind = "U16IntWire" -> WireU16Int_to_bytes(v)
      [] kind = "U32IntWire" -> WireU32Int_to_bytes(v)
      [] kind = "U64IntWire" -> WireU64Int_to_bytes(v)
      [] kind = "SingleByteWire" -> Wire1Byte_to_bytes(v)
      [] kind = "ShortChannelIDElement" -> ShortChannelIDElement_to_bytes(v)
      [] kind = "NodeAddressesWire" -> NodeAddressesElement_to_bytes(v)
      [] kind \in {"TLVStreamElement", "SignatureElement", "ChainHashElement",
                   "Wire32Bytes", "PointElementWire", "Bytes3Element"} -> v

\* let (f, data) = K::from_bytes(data)?; for each K of kinds in order: the
\* first Err is returned, a panic ends the decode.
RECURSIVE DecodeFields(_, _, _)
DecodeFields(kinds, data, acc) ==
    IF kinds = <<>> THEN Ok(acc, data)
    ELSE AndThen(Field_from_bytes(Head(kinds), data),
                 LAMBDA v, rest : DecodeFields(Tail(kinds), rest, Append(acc, v)))

\* let (f, data) = K::from_bytes(data).unwrap(); for each K of kinds in order
RECURSIVE DecodeFieldsUnwrap(_, _, _)
DecodeFieldsUnwrap(kinds, data, acc) ==
    IF kinds = <<>> THEN Ok(acc, data)
    ELSE AndThen(Unwrap(Field_from_bytes(Head(kinds), data)),
                 LAMBDA v, rest : DecodeFieldsUnwrap(Tail(kinds), rest, Append(acc, v)))

\* MessageType as u16, for the in-scope types
MessageType_Init == 16

MessageType_Ping == 18

MessageType_Pong == 19

MessageType_ChannelAnnouncement == 256

MessageType_NodeAnnouncement == 257

MessageType_ChannelUpdate == 258

MessageType_QueryChannelRange == 263

MessageType_ReplyChannelRange == 264

MessageType_GossipTimestampFilter == 265

\* The discriminants of enum MessageType
MessageTypeIds ==
    {0, 1, 2, 16, 17, 18, 19} \cup (32..36) \cup (38..41) \cup (64..74)
    \cup {128} \cup (130..136) \cup (256..259) \cup (261..265)

\* MessageType::from_int: Some(variant) when a variant has the value n
MessageType_from_int(n) ==
    IF n \in MessageTypeIds THEN [tag |-> "Some", value |-> n] ELSE [tag |-> "None"]

InitMessage_from_bytes(data) ==
    AndThen(DecodeFields(<<"MessageTypeWire", "U16SizedBytesWire",
                            "U16SizedBytesWire", "TLVStreamElement">>, data, <<>>),
        LAMBDA v, rest :
            Ok([type |-> "Init",
                 global_features |-> v[2].value,
                 local_features |-> v[3].value,
                 tlv |-> v[4]], rest))

InitMessage_to_bytes(m) ==
    MessageTypeElement_to_bytes(MessageType_Init)
    \o WireU16SizedBytes_to_bytes(WireU16SizedBytes_new(m.global_features))
    \o WireU16SizedBytes_to_bytes(WireU16SizedBytes_new(m.local_features))
    \o m.tlv

PingMessage_from_bytes(data) ==
    AndThen(DecodeFields(<<"MessageTypeWire", "U16IntWire", "U16SizedBytesWire">>,
                          data, <<>>),
        LAMBDA v, rest :
            Ok([type |-> "Ping",
                 num_pong_bytes |-> v[2],
                 ignored |-> v[3].value], rest))

PingMessage_to_bytes(m) ==
    MessageTypeElement_to_bytes(MessageType_Ping)
    \o WireU16Int_to_bytes(m.num_pong_bytes)
    \o WireU16SizedBytes_to_bytes(WireU16SizedBytes_new(m.ignored))

\* A pong that echoes the ping's ignored bytes instead of num_pong_bytes zeros
Mutant_pong_echoes_ignored(ping) ==
    [type |-> "Pong", ignored |-> ping.ignored]

\* PongMessage::from_ping: ignored is vec![0; ping.num_pong_bytes]
PongMessage_from_ping(ping) ==
    [type |-> "Pong", ignored |-> Fill(ping.num_pong_bytes, 0)]

PongMessage_from_bytes(data) ==
    AndThen(DecodeFields(<<"MessageTypeWire", "U16SizedBytesWire">>, data, <<>>),
        LAMBDA v, rest :
            Ok([type |-> "Pong", ignored |-> v[2].value], rest))

PongMessage_to_bytes(m) ==
    MessageTypeElement_to_bytes(MessageType_Pong)
    \o WireU16SizedBytes_to_bytes(WireU16SizedBytes_new(m.ignored))

ChannelAnnouncementMessage_from_bytes(data) ==
    AndThen(DecodeFields(<<"MessageTypeWire", "SignatureElement", "SignatureElement",
                            "SignatureElement", "SignatureElement",
                            "U16SizedBytesWire", "ChainHashElement",
                            "ShortChannelIDElement", "PointElementWire",
                            "PointElementWire", "PointElementWire",
                            "PointElementWire">>, data, <<>>),
        LAMBDA v, rest :
            Ok([type |-> "ChannelAnnouncement",
                 node_signature_1 |-> v[2],
                 node_signature_2 |-> v[3],
                 bitcoin_signature_1 |-> v[4],
                 bitcoin_signature_2 |-> v[5],
                 features |-> v[6].value,
                 chain_hash |-> v[7],
                 short_channel_id |-> v[8],
                 node_id_1 |-> v[9],
                 node_id_2 |-> v[10],
                 bitcoin_node_id_1 |-> v[11],
                 bitcoin_node_id_2 |-> v[12]], rest))

ChannelAnnouncementMessage_to_bytes(m) ==
    MessageTypeElement_to_bytes(MessageType_ChannelAnnouncement)
    \o m.node_signature_1 \o m.node_signature_2
    \o m.bitcoin_signature_1 \o m.bitcoin_signature_2
    \o WireU16SizedBytes_to_bytes(WireU16SizedBytes_new(m.features))
    \o m.chain_hash
    \o ShortChannelIDElement_to_bytes(m.short_channel_id)
    \o m.node_id_1 \o m.node_id_2 \o m.bitcoin_node_id_1 \o m.bitcoin_node_id_2

GossipTimestampFilterMessage_from_bytes(data) ==
    AndThen(DecodeFields(<<"MessageTypeWire", "ChainHashElement", "U32IntWire",
                            "U32IntWire">>, data, <<>>),
        LAMBDA v, rest :
            Ok([type |-> "GossipTimestampFilter",
                 chain_hash |-> v[2],
                 first_timestamp |-> v[3],
                 timestamp_range |-> v[4]], rest))

GossipTimestampFilterMessage_to_bytes(m) ==
    MessageTypeElement_to_bytes(MessageType_GossipTimestampFilter)
    \o m.chain_hash
    \o WireU32Int_to_bytes(m.first_timestamp)
    \o WireU32Int_to_bytes(m.timestamp_range)

QueryChannelRangeMessage_from_bytes(data) ==
    AndThen(DecodeFields(<<"MessageTypeWire", "ChainHashElement", "U32IntWire",
                            "U32IntWire", "TLVStreamElement">>, data, <<>>),
        LAMBDA v, rest :
            Ok([type |-> "QueryChannelRange",
                 chain_hash |-> v[2],
                 first_blocknum |-> v[3],
                 number_of_blocks |-> v[4],
                 query_range_tlvs |-> v[5]], rest))

QueryChannelRangeMessage_to_bytes(m) ==
    MessageTypeElement_to_bytes(MessageType_QueryChannelRange)
    \o m.chain_hash
    \o WireU32Int_to_bytes(m.first_blocknum)
    \o WireU32Int_to_bytes(m.number_of_blocks)
    \o m.query_range_tlvs

ReplyChannelRangeMessage_from_bytes(data) ==
    AndThen(DecodeFields(<<"MessageTypeWire", "ChainHashElement", "U32IntWire",
                            "U32IntWire", "SingleByteWire", "U16SizedBytesWire",
                            "TLVStreamElement">>, data, <<>>),
        LAMBDA v, rest :
            Ok([type |-> "ReplyChannelRange",
                 chain_hash |-> v[2],
                 first_blocknum |-> v[3],
                 number_of_blocks |-> v[4],
                 sync_complete |-> v[5],
                 encoded_short_ids |-> v[6].value,
                 reply_channel_range_tlvs |-> v[7]], rest))

ReplyChannelRangeMessage_to_bytes(m) ==
    MessageTypeElement_to_bytes(MessageType_ReplyChannelRange)
    \o m.chain_hash
    \o WireU32Int_to_bytes(m.first_blocknum)
    \o WireU32Int_to_bytes(m.number_of_blocks)
    \o Wire1Byte_to_bytes(m.sync_complete)
    \o WireU16SizedBytes_to_bytes(WireU16SizedBytes_new(m.encoded_short_ids))
    \o m.reply_channel_range_tlvs

NodeAnnouncementMessage_from_bytes(data) ==
    AndThen(DecodeFields(<<"MessageTypeWire", "SignatureElement", "U16SizedBytesWire",
                            "U32IntWire", "PointElementWire", "Bytes3Element",
                            "Wire32Bytes", "NodeAddressesWire">>, data, <<>>),
        LAMBDA v, rest :
            Ok([type |-> "NodeAnnouncement",
                 signature |-> v[2],
                 features |-> v[3].value,
                 timestamp |-> v[4],
                 node_id |-> v[5],
                 rgb_color |-> v[6],
                 alias |-> v[7],
                 addresses |-> v[8]], rest))

NodeAnnouncementMessage_to_bytes(m) ==
    MessageTypeElement_to_bytes(MessageType_NodeAnnouncement)
    \o m.signature
    \o WireU16SizedBytes_to_bytes(WireU16SizedBytes_new(m.features))
    \o WireU32Int_to_bytes(m.timestamp)
    \o m.node_id \o m.rgb_color \o m.alias
    \o NodeAddressesElement_to_bytes(m.addresses)

\* ChannelUpdateMessage::from_bytes: the type is read with ?, every other
\* field with .unwrap()
ChannelUpdateMessage_from_bytes(data) ==
    LET t == MessageTypeElement_from_bytes(data) IN
    IF t.tag # "Ok" THEN t
    ELSE AndThen(DecodeFieldsUnwrap(<<"SignatureElement", "ChainHashElement",
                     "ShortChannelIDElement", "U32IntWire", "SingleByteWire",
                     "SingleByteWire", "U16IntWire", "U64IntWire", "U32IntWire",
                     "U32IntWire", "U64IntWire">>, t.rest, <<>>),
        LAMBDA v, rest :
            Ok([type |-> "ChannelUpdate",
                      signature |-> v[1],
                      chain_hash |-> v[2],
                      short_channel_id |-> v[3],
                      timestamp |-> v[4],
                      message_flags |-> v[5],
                      channel_flags |-> v[6],
                      cltv_expiry_delta |-> v[7],
                      htlc_minimum_msat |-> v[8],
                      fee_base_msat |-> v[9],
                      fee_proportional_millionths |-> v[10],
                      htlc_maximum_msat |-> v[11]], rest))

ChannelUpdateMessage_to_bytes(m) ==
    MessageTypeElement_to_bytes(MessageType_ChannelUpdate)
    \o m.signature \o m.chain_hash
    \o ShortChannelIDElement_to_bytes(m.short_channel_id)
    \o WireU32Int_to_bytes(m.timestamp)
    \o Wire1Byte_to_bytes(m.message_flags)
    \o Wire1Byte_to_bytes(m.channel_flags)
    \o WireU16Int_to_bytes(m.cltv_expiry_delta)
    \o WireU64Int_to_bytes(m.htlc_minimum_msat)
    \o WireU32Int_to_bytes(m.fee_base_msat)
    \o WireU32Int_to_bytes(m.fee_proportional_millionths)
    \o WireU64Int_to_bytes(m.htlc_maximum_msat)

\* UnknownMessage::from_bytes: the type id and every byte after it; the
\* remainder returned is empty.
UnknownMessage_from_bytes(data) ==
    LET t == MessageTypeElement_from_bytes(data) IN
    IF t.tag # "Ok" THEN t
    ELSE Ok([type |-> "Unknown", type_id |-> t.value, data |-> t.rest], <<>>)

UnknownMessage_to_bytes(m) == MessageTypeElement_to_bytes(m.type_id) \o m.data

(***************************************************************************)
(* message_decoder.rs                                                      *)
(***************************************************************************)
\* MessageContainer::to_bytes
MessageContainer_to_bytes(m) ==
    CASE m.type = "Init" -> InitMessage_to_bytes(m)
      [] m.type = "Ping" -> PingMessage_to_bytes(m)
      [] m.type = "Pong" -> PongMessage_to_bytes(m)
      [] m.type = "ChannelAnnouncement" -> ChannelAnnouncementMessage_to_bytes(m)
      [] m.type = "NodeAnnouncement" -> NodeAnnouncementMessage_to_bytes(m)
      [] m.type = "GossipTimestampFilter" -> GossipTimestampFilterMessage_to_bytes(m)
      [] m.type = "QueryChannelRange" -> QueryChannelRangeMessage_to_bytes(m)
      [] m.type = "ReplyChannelRange" -> ReplyChannelRangeMessage_to_bytes(m)
      [] m.type = "ChannelUpdate" -> ChannelUpdateMessage_to_bytes(m)
      [] m.type = "Unknown" -> UnknownMessage_to_bytes(m)

\* The match of MessageDecoder::from_bytes on the message type
DecodeVariant(id, bytes) ==
    CASE id = MessageType_Init -> InitMessage_from_bytes(bytes)
      [] id = MessageType_Ping -> PingMessage_from_bytes(bytes)
      [] id = MessageType_Pong -> PongMessage_from_bytes(bytes)
      [] id = MessageType_ChannelAnnouncement -> ChannelAnnouncementMessage_from_bytes(bytes)
      [] id = MessageType_NodeAnnouncement -> NodeAnnouncementMessage_from_bytes(bytes)
      [] id = MessageType_GossipTimestampFilter -> GossipTimestampFilterMessage_from_bytes(bytes)
      [] id = MessageType_ReplyChannelRange -> ReplyChannelRangeMessage_from_bytes(bytes)
      [] id = MessageType_QueryChannelRange -> QueryChannelRangeMessage_from_bytes(bytes)
      [] id = MessageType_ChannelUpdate -> ChannelUpdateMessage_from_bytes(bytes)
      [] OTHER -> UnknownMessage_from_bytes(bytes)

\* Err(_) => return Err(MessageDecoderError::Error)
MapDecoderError(r) ==
    CHOOSE u \in {IF x.tag = "Err" THEN Err("Error") ELSE x : x \in {r}} : TRUE

\* MessageDecoder::from_bytes: every Err of a message decoder becomes
\* MessageDecoderError::Error; MessageType::from_int(id).unwrap() panics on an
\* id that is no variant of MessageType.
MessageDecoder_from_bytes(bytes) ==
    LET message_type_struct == MessageTypeElement_from_bytes(bytes) IN
    IF message_type_struct.tag # "Ok" THEN Err("Error")
    ELSE LET message_type == MessageType_from_int(message_type_struct.value) IN
         IF message_type.tag = "None" THEN Panic
         ELSE MapDecoderError(DecodeVariant(message_type.value, bytes))

(***************************************************************************)
(* The inputs of the codec: well-formed messages of every type with small  *)
(* variable-length fields, their truncations, and unknown type ids.        *)
(***************************************************************************)
\* The longest variable-length field value of the inputs
MaxFieldLen == 2

\* The most address entries in a node_announcement of the inputs
MaxAddrEntries == 2

\* A byte string of length n with pairwise different bytes
Pattern(n, seed) == [i \in 1..n |-> (seed + 7 * i) % 256]

VarBytes == {Pattern(n, 200) : n \in 0..MaxFieldLen}

Sized(b) == U16ToBe(Len(b)) \o b

\* The init message of test_decode_init_message (messages.rs)
InitTestVector ==
    <<0, 16, 0, 2, 17, 0, 0, 7, 8, 160, 136, 10, 138, 89, 161, 1, 32, 6, 34,
      110, 70, 17, 26, 11, 89, 202, 175, 18, 96, 67, 235, 91, 191, 40, 195,
      79, 58, 94, 51, 42, 31, 199, 178, 183, 60, 241, 136, 145, 15, 45, 126,
      249, 148, 130, 6, 122, 27, 114, 254, 158, 65, 29, 55, 190, 140>>

InitInputs ==
    {U16ToBe(MessageType_Init) \o Sized(gf) \o Sized(lf) \o tlv :
        gf \in VarBytes, lf \in VarBytes, tlv \in VarBytes}
    \cup {InitTestVector}

PingInputs ==
    {U16ToBe(MessageType_Ping) \o U16ToBe(n) \o Sized(ign) \o trail :
        n \in {0, 5, 65535}, ign \in VarBytes, trail \in VarBytes}

PongInputs ==
    {U16ToBe(MessageType_Pong) \o Sized(ign) \o trail :
        ign \in VarBytes, trail \in VarBytes}

ChannelAnnouncementInputs ==
    {U16ToBe(MessageType_ChannelAnnouncement)
        \o Pattern(64, 1) \o Pattern(64, 2) \o Pattern(64, 3) \o Pattern(64, 4)
        \o Sized(f) \o Pattern(32, 5) \o <<0, 1, 0, 0, 0, 2, 0, 3>>
        \o Pattern(33, 6) \o Pattern(33, 7) \o Pattern(33, 8) \o Pattern(33, 9)
        \o trail : f \in VarBytes, trail \in VarBytes}

\* One address entry of each type of the spec's table, a DNS entry with an
\* empty hostname, and an entry with a discriminator outside 1..5.
AddrEntries ==
    {<<1>> \o Pattern(6, 10), <<2>> \o Pattern(18, 20), <<3>> \o Pattern(12, 30),
     <<4>> \o Pattern(37, 40), <<5>> \o Pattern(3, 50), <<5>>, <<6, 1, 2>>}

RECURSIVE AddrPayloads(_)
AddrPayloads(n) ==
    IF n = 0 THEN {<<>>}
    ELSE AddrPayloads(n - 1)
         \cup {p \o e : p \in AddrPayloads(n - 1), e \in AddrEntries}

NodeAnnouncementPrefix(f) ==
    U16ToBe(MessageType_NodeAnnouncement) \o Pattern(64, 1) \o Sized(f)
    \o <<0, 1, 2, 3>> \o Pattern(33, 6) \o Pattern(3, 60) \o Pattern(32, 70)

NodeAnnouncementInputs ==
    {NodeAnnouncementPrefix(f) \o Sized(a) \o trail :
        f \in {<<>>}, a \in AddrPayloads(MaxAddrEntries), trail \in VarBytes}

ChannelUpdateInputs ==
    {U16ToBe(MessageType_ChannelUpdate) \o Pattern(64, 1) \o Pattern(32, 5)
        \o <<0, 1, 0, 0, 0, 2, 0, 3>> \o <<0, 1, 2, 3>> \o <<1>> \o <<2>>
        \o <<0, 144>> \o <<0, 0, 0, 0, 0, 0, 3, 232>> \o <<0, 0, 3, 232>>
        \o <<0, 0, 0, 1>> \o <<0, 0, 0, 0, 5, 6, 7, 8>> \o trail :
        trail \in VarBytes}

QueryChannelRangeInputs ==
    {U16ToBe(MessageType_QueryChannelRange) \o Pattern(32, 5) \o <<0, 1, 2, 3>>
        \o <<0, 0, 4, 0>> \o tlvs : tlvs \in VarBytes}

ReplyChannelRangeInputs ==
    {U16ToBe(MessageType_ReplyChannelRange) \o Pattern(32, 5) \o <<0, 1, 2, 3>>
        \o <<0, 0, 4, 0>> \o <<1>> \o Sized(ids) \o tlvs :
        ids \in VarBytes, tlvs \in VarBytes}

GossipTimestampFilterInputs ==
    {U16ToBe(MessageType_GossipTimestampFilter) \o Fill(32, 0) \o <<0, 0, 171, 205>>
        \o <<0, 0, 255, 255>> \o trail : trail \in VarBytes}

\* Type ids outside the nine in-scope types: variants of MessageType (0, 1,
\* 17, 259) and ids that are no variant (266, 9999, 65535).
OtherTypeIds == {0, 1, 17, 259, 266, 9999, 65535}

OtherTypeInputs ==
    {U16ToBe(id) \o payload : id \in OtherTypeIds, payload \in VarBytes}

WellFormedInputs ==
    InitInputs \cup PingInputs \cup PongInputs \cup ChannelAnnouncementInputs
    \cup NodeAnnouncementInputs \cup ChannelUpdateInputs
    \cup QueryChannelRangeInputs \cup ReplyChannelRangeInputs
    \cup GossipTimestampFilterInputs \cup OtherTypeInputs

\* One message of each in-scope type, cut after every number of bytes
TruncationBases ==
    {CHOOSE b \in S : \A c \in S : Len(b) <= Len(c) :
        S \in {InitInputs, PingInputs, PongInputs, ChannelAnnouncementInputs,
               ChannelUpdateInputs, QueryChannelRangeInputs,
               ReplyChannelRangeInputs, GossipTimestampFilterInputs}}
    \cup {NodeAnnouncementPrefix(<<>>) \o Sized(<<1>> \o Pattern(6, 10))}

TruncatedInputs == UNION {{Take(b, k) : k \in 0..Len(b)} : b \in TruncationBases}

CodecInputs == WellFormedInputs \cup TruncatedInputs

InScopeTypeIds ==
    {MessageType_Init, MessageType_Ping, MessageType_Pong,
     MessageType_ChannelAnnouncement, MessageType_NodeAnnouncement,
     MessageType_ChannelUpdate, MessageType_QueryChannelRange,
     MessageType_ReplyChannelRange, MessageType_GossipTimestampFilter}

(***************************************************************************)
(* The peer's environment: remote nodes and the frames they send           *)
(***************************************************************************)
\* The number of remote nodes
MaxNodes == 2

\* The most connections opened before the event loop starts
MaxSetupOpens == 2

\* The most items the remote nodes deliver in one run, over all connections
MaxDeliveries == 2

\* The most items waiting unread on one connection
MaxQueue == 2

\* The 33-byte public key of remote node i
NodeKey(i) == <<2>> \o Fill(32, i)

Keys == {NodeKey(i) : i \in 1..MaxNodes}

\* A node_announcement of node_id with the inner address payload a
NodeAnnouncementBytes(node_id, a) ==
    U16ToBe(MessageType_NodeAnnouncement) \o Pattern(64, 1) \o Sized(<<>>)
    \o <<0, 1, 2, 3>> \o node_id \o Pattern(3, 60) \o Pattern(32, 70) \o Sized(a)

\* The IPv4 entry 10.0.0.i:9735
Ipv4Entry(i) == <<1, 10, 0, 0, i, 38, 7>>

\* A channel_announcement of the channel 65536x2x3 with the given features
ChannelAnnouncementBytes(features) ==
    U16ToBe(MessageType_ChannelAnnouncement)
    \o Pattern(64, 1) \o Pattern(64, 2) \o Pattern(64, 3) \o Pattern(64, 4)
    \o Sized(features) \o Pattern(32, 5) \o <<0, 1, 0, 0, 0, 2, 0, 3>>
    \o Pattern(33, 6) \o Pattern(33, 7) \o Pattern(33, 8) \o Pattern(33, 9)

ChannelUpdateBytes ==
    CHOOSE b \in ChannelUpdateInputs : \A c \in ChannelUpdateInputs : Len(b) <= Len(c)

\* The plaintexts a remote node may send, by name
PlainNames ==
    {"init", "ping", "ping_max", "pong", "gossip_timestamp_filter",
     "channel_announcement", "channel_announcement_again", "node_announcement", "node_announcement_tor",
     "node_announcement_bad", "channel_update", "channel_update_short",
     "query_channel_range", "reply_channel_range",
     "error", "unnamed_type", "empty"}

PlainBytes(name) ==
    CASE name = "init" -> <<0, 16, 0, 0, 0, 1, 1>>
      \* the ping of the spec's scenario 2: 5 pong bytes, 3 ignored zero bytes
      [] name = "ping" -> <<0, 18, 0, 5, 0, 3, 0, 0, 0>>
      \* num_pong_bytes = 65535
      [] name = "ping_max" -> <<0, 18, 255, 255, 0, 0>>
      [] name = "pong" -> <<0, 19, 0, 0>>
      \* the filter of the spec's scenario 3
      [] name = "gossip_timestamp_filter" ->
            <<1, 9>> \o Fill(32, 0) \o <<0, 0, 171, 205>> \o <<0, 0, 255, 255>>
      [] name = "channel_announcement" -> ChannelAnnouncementBytes(<<>>)
      \* the same short_channel_id announced with other features
      [] name = "channel_announcement_again" -> ChannelAnnouncementBytes(<<1>>)
      \* announces the last node, with an IPv4 address
      [] name = "node_announcement" ->
            NodeAnnouncementBytes(NodeKey(MaxNodes), Ipv4Entry(MaxNodes))
      \* announces the last node, with a Tor v2 address only
      [] name = "node_announcement_tor" ->
            NodeAnnouncementBytes(NodeKey(MaxNodes), <<3>> \o Pattern(12, 30))
      \* node_addresses with the unknown discriminator 6
      [] name = "node_announcement_bad" ->
            NodeAnnouncementBytes(NodeKey(MaxNodes), <<6, 1, 2>>)
      [] name = "channel_update" -> ChannelUpdateBytes
      \* a channel_update cut after 100 of its 138 bytes
      [] name = "channel_update_short" -> Take(ChannelUpdateBytes, 100)
      [] name = "query_channel_range" ->
            CHOOSE b \in QueryChannelRangeInputs :
                \A c \in QueryChannelRangeInputs : Len(b) <= Len(c)
      [] name = "reply_channel_range" ->
            CHOOSE b \in ReplyChannelRangeInputs :
                \A c \in ReplyChannelRangeInputs : Len(b) <= Len(c)
      \* type 17 (error), a variant of MessageType outside the in-scope types
      [] name = "error" -> <<0, 17, 1, 2, 3>>
      \* type 9999, no variant of MessageType
      [] name = "unnamed_type" -> <<39, 15, 1, 2, 3>>
      \* a frame whose length header is 0
      [] name = "empty" -> <<>>

\* The 16 bytes of Poly1305 tag that end a frame's body
Tags == {Fill(16, 0)}

\* What a read on a socket may find: a frame (whose header or body ciphertext
\* may fail AEAD verification), the end of the stream after the remote closed
\* it, or an I/O error.  seq is the item's arrival number, given on arrival.
GoodFrames ==
    {[kind |-> "frame", hdr_ok |-> TRUE, body_ok |-> TRUE, plain |-> n, tag |-> t,
      seq |-> 0] : n \in PlainNames, t \in Tags}

BadFrames ==
    {[kind |-> "frame", hdr_ok |-> FALSE, body_ok |-> TRUE, plain |-> "ping",
      tag |-> Fill(16, 0), seq |-> 0],
     [kind |-> "frame", hdr_ok |-> TRUE, body_ok |-> FALSE, plain |-> "ping",
      tag |-> Fill(16, 0), seq |-> 0]}

Eof == [kind |-> "eof", seq |-> 0]

Reset == [kind |-> "reset", seq |-> 0]

SocketItems == GoodFrames \cup BadFrames \cup {Eof, Reset}

(***************************************************************************)
(* node_connection.rs                                                      *)
(***************************************************************************)
\* A NodeConnection as NodeConnection::new returns it: the stream just
\* connected, the encryptor before Act One.  id tells connection objects
\* apart; first_sent is the type of the first message written (-1: none yet);
\* inq is what the socket holds unread, oldest first; dispatched is the
\* history of the messages of this connection handed to
\* handle_inbound_message, each <<arrival number, type>>.
NodeConnection_new(id) ==
    [id |-> id, noise_step |-> "ActOne", first_sent |-> -1,
     pending_ping |-> FALSE, inq |-> <<>>, dispatched |-> <<>>]

\* What the remote node and the network do while a connection is opened
OpenEnvs ==
    {"ok", "connect_fail", "act_one_write_fail", "act_two_io_error",
     "act_two_bad_version", "act_two_bad_tag", "act_three_write_fail",
     "init_write_fail"}

\* A handshake that takes an Act Two of any version
Mutant_handshake_any_version(conn, env) ==
    IF env \in {"act_one_write_fail", "act_two_io_error", "act_two_bad_tag",
                "act_three_write_fail"}
    THEN Err("SocketError")
    ELSE [tag |-> "Ok", conn |-> [conn EXCEPT !.noise_step = "NoiseComplete"]]

\* NodeConnection::handshake: send_act_one, read_n_bytes, process_act_two.
\* Every failure is returned as NodeConnectionError::SocketError.
NodeConnection_handshake(conn, env) ==
    LET after_act_one == [conn EXCEPT !.noise_step = "ActTwo"] IN
    IF env = "act_one_write_fail" THEN Err("SocketError")
    ELSE IF env = "act_two_io_error" THEN Err("SocketError")
    ELSE IF env \in {"act_two_bad_version", "act_two_bad_tag"}
         THEN Err("SocketError")
    ELSE IF env = "act_three_write_fail" THEN Err("SocketError")
    ELSE [tag |-> "Ok", conn |-> [after_act_one EXCEPT !.noise_step = "NoiseComplete"]]

\* NodeConnection::send_message: MessageBuf::from_encoded panics on more than
\* 65535 bytes; a failed write_all is SocketError.
NodeConnection_send_message(conn, bytes, write_ok) ==
    IF Len(bytes) > 65535 THEN Panic
    ELSE IF ~write_ok THEN Err("SocketError")
    ELSE [tag |-> "Ok",
          conn |-> [conn EXCEPT !.first_sent =
                        IF @ = -1 THEN U16FromBe(bytes) ELSE @],
          wire |-> bytes]

\* encrypt_and_send_message(&wrapped): the message encoded, then sent as one
\* frame.
NodeConnection_encrypt_and_send_message(conn, wrapped, write_ok) ==
    NodeConnection_send_message(conn, MessageContainer_to_bytes(wrapped), write_ok)

\* A read that takes the newest item the socket holds, not the oldest
Mutant_read_stream_newest(conn) ==
    LET item == conn.inq[Len(conn.inq)] IN
    CASE item.kind = "reset" -> [res |-> Err("SocketError"), conn |-> conn]
      [] item.kind = "eof" -> [res |-> Err("InvalidHeaderLength"), conn |-> conn]
      [] item.kind = "frame" ->
            LET c == [conn EXCEPT !.inq = SubSeq(@, 1, Len(@) - 1)] IN
            IF ~item.hdr_ok \/ ~item.body_ok
            THEN [res |-> Panic, conn |-> c]
            ELSE [res |-> Ok(PlainBytes(item.plain) \o item.tag, <<>>), conn |-> c]

\* NodeConnection::read_stream on a socket that has something to read: the
\* 18-byte header, decrypt_message(header).unwrap(), the length + 16 bytes of
\* the body, decrypt_message(message).unwrap().  decrypt_message decrypts in
\* place and leaves the 16 tag bytes at the end of the buffer, which is
\* returned whole.
NodeConnection_read_stream(conn) ==
    LET item == Head(conn.inq) IN
    CASE item.kind = "reset" -> [res |-> Err("SocketError"), conn |-> conn]
      [] item.kind = "eof" -> [res |-> Err("InvalidHeaderLength"), conn |-> conn]
      [] item.kind = "frame" ->
            LET c == [conn EXCEPT !.inq = Tail(@)] IN
            IF ~item.hdr_ok \/ ~item.body_ok
            THEN [res |-> Panic, conn |-> c]
            ELSE [res |-> Ok(PlainBytes(item.plain) \o item.tag, <<>>), conn |-> c]

\* Err(_) => return Err(NodeConnectionError::MessageDecodeError)
MapDecodeError(d, conn) ==
    IF d.tag = "Err" THEN [res |-> Err("MessageDecodeError"), conn |-> conn]
    ELSE [res |-> d, conn |-> conn]

\* NodeConnection::read_next_message, once read_stream has returned s
DecodeRead(s) ==
    IF s.res.tag # "Ok" THEN s
    ELSE IF s.res.value = <<>>
         THEN [res |-> Err("NoMessageFound"), conn |-> s.conn]
    ELSE MapDecodeError(MessageDecoder_from_bytes(s.res.value), s.conn)

\* NodeConnection::read_next_message
NodeConnection_read_next_message(conn) ==
    DecodeRead(NodeConnection_read_stream(conn))

\* ready_for_ping(): no ping is pending and the ping interval has passed
NodeConnection_ready_for_ping(conn, ping_due) == ping_due /\ ~conn.pending_ping

\* The ping send_ping() sends
HeartbeatPing == [type |-> "Ping", num_pong_bytes |-> 0, ignored |-> <<>>]

\* send_ping(): a ping is sent and recorded as pending
NodeConnection_send_ping(conn, write_ok) ==
    LET Sent(r) ==
            IF r.tag # "Ok" THEN r
            ELSE [r EXCEPT !.conn = [@ EXCEPT !.pending_ping = TRUE]]
    IN  Sent(NodeConnection_encrypt_and_send_message(conn, HeartbeatPing, write_ok))

(***************************************************************************)
(* peer.rs                                                                 *)
(***************************************************************************)
\* The init message open_node_connection sends
OurInit == <<0, 16, 0, 0, 0, 1, 170>>

\* NodeAnnouncementMessage::as_node (messages.rs): the first IPv4 address,
\* ipv4_addresses.first().unwrap(), so a panic when there is none.
NodeAnnouncementMessage_as_node(m) ==
    IF m.addresses.ipv4_addresses = <<>> THEN Panic
    ELSE [tag |-> "Some", public_key |-> m.node_id,
          address |-> Head(m.addresses.ipv4_addresses)]

\* An insert that leaves the value of a key the map already holds
Mutant_Insert_keeps_old(f, k, v) ==
    [x \in DOMAIN f \cup {k} |-> IF x \in DOMAIN f THEN f[x] ELSE v]

\* HashMap::insert: the value of k is v, whether the map held k or not
Insert(f, k, v) == [x \in DOMAIN f \cup {k} |-> IF x = k THEN v ELSE f[x]]

Remove(f, k) == [x \in DOMAIN f \ {k} |-> f[x]]

\* What a call on the peer gives: the peer's fields after it (st), the value
\* returned (ret), whether it panicked and where (panic), the frames written
\* (writes, each <<key, plaintext>>) and what the last open_node_connection
\* inside it returned (open_result).
Returned(st, ret, writes, open_result) ==
    [st |-> st, ret |-> ret, panic |-> "none", writes |-> writes,
     open_result |-> open_result]

Panicked(st, where, writes, open_result) ==
    [st |-> st, ret |-> "none", panic |-> where, writes |-> writes,
     open_result |-> open_result]

\* An open_node_connection that keeps the connection whatever the handshake gave
Mutant_open_keeps_connection(st, public_key, env) ==
    IF env \in {"ok", "init_write_fail"}
    THEN Returned([st EXCEPT !.next_id = @ + 1,
                             !.node_connections =
                                 Insert(@, public_key,
                                        [NodeConnection_new(st.next_id) EXCEPT
                                            !.noise_step = "NoiseComplete",
                                            !.first_sent = MessageType_Init])],
                  "Ok", <<<<public_key, OurInit>>>>, "Ok")
    ELSE IF env = "connect_fail"
    THEN Returned([st EXCEPT !.next_id = @ + 1], "NodeConnectionError", <<>>,
                  "NodeConnectionError")
    ELSE Returned([st EXCEPT !.next_id = @ + 1,
                             !.node_connections =
                                 Insert(@, public_key,
                                        [NodeConnection_new(st.next_id) EXCEPT
                                            !.noise_step = "ActTwo"])],
                  "NodeHandshakeError", <<>>, "NodeHandshakeError")

\* MiniPeer::open_node_connection
MiniPeer_open_node_connection(st, public_key, env) ==
    LET st1 == [st EXCEPT !.next_id = @ + 1]
        Sent(w) ==
            IF w.tag # "Ok"
            THEN Panicked(st1, "open_node_connection: init not sent", <<>>, "none")
            ELSE Returned([st1 EXCEPT !.node_connections =
                              Insert(@, public_key, w.conn)],
                          "Ok", <<<<public_key, w.wire>>>>, "Ok")
        Shaken(h) ==
            IF h.tag # "Ok"
            THEN Returned(st1, "NodeHandshakeError", <<>>, "NodeHandshakeError")
            ELSE Sent(NodeConnection_encrypt_and_send_message(
                          h.conn, Unwrap(InitMessage_from_bytes(OurInit)).value,
                          env # "init_write_fail"))
    IN
    IF env = "connect_fail"
    THEN Returned(st1, "NodeConnectionError", <<>>, "NodeConnectionError")
    ELSE Shaken(NodeConnection_handshake(NodeConnection_new(st.next_id), env))

\* A match that answers a pong as it answers a filter
Mutant_pong_answered(wrapped) ==
    IF wrapped.type \in {"Pong", "GossipTimestampFilter"} THEN "GossipTimestampFilter"
    ELSE IF wrapped.type \in {"Ping", "NodeAnnouncement", "ChannelAnnouncement"}
    THEN wrapped.type
    ELSE "_"

\* match wrapped { Ping, NodeAnnouncement, ChannelAnnouncement,
\* GossipTimestampFilter, _ }: the arm taken
Arm(wrapped) ==
    IF wrapped.type \in {"Ping", "NodeAnnouncement", "ChannelAnnouncement",
                         "GossipTimestampFilter"}
    THEN wrapped.type
    ELSE "_"

\* An insert that replaces the announcement stored for the channel
Mutant_channel_overwritten(known_channels, msg) ==
    Insert(known_channels, msg.short_channel_id, msg)

\* if !self.known_channels.contains_key(&msg.short_channel_id) { insert }
KnownChannelsWith(known_channels, msg) ==
    IF msg.short_channel_id \notin DOMAIN known_channels
    THEN Insert(known_channels, msg.short_channel_id, msg)
    ELSE known_channels

\* A reply that sends the filter back as it came
Mutant_filter_echoed(gtf) == gtf

\* let mut our_filter = gtf.clone(); our_filter.first_timestamp = 0;
OurFilter(gtf) == [gtf EXCEPT !.first_timestamp = 0]

\* MiniPeer::handle_inbound_message
MiniPeer_handle_inbound_message(st, wrapped, node_public_key, write_ok, open_env) ==
    LET Sent(r, where) ==
            CASE r.tag = "Panic" -> Panicked(st, where, <<>>, "none")
              [] r.tag = "Err" -> Returned(st, "NodeConnectionError", <<>>, "none")
              [] r.tag = "Ok" ->
                    Returned([st EXCEPT !.node_connections[node_public_key] = r.conn],
                             "Ok", <<<<node_public_key, r.wire>>>>, "none")
        Reply(response, where) ==
            Sent(NodeConnection_encrypt_and_send_message(
                     st.node_connections[node_public_key], response, write_ok),
                 where)
        Opened(o) ==
            IF o.panic # "none" THEN o
            ELSE IF o.ret # "Ok"
            THEN Panicked(o.st, "handle_inbound_message: open_node_connection failed",
                          o.writes, o.open_result)
            ELSE o
        Found(st1, node) ==
            IF node.tag = "Panic"
            THEN Panicked(st1, "as_node: no IPv4 address", <<>>, "none")
            ELSE IF ~st.connect_to_new_nodes
            THEN Returned(st1, "Ok", <<>>, "none")
            ELSE Opened(MiniPeer_open_node_connection(st1, node.public_key, open_env))
    IN
    IF node_public_key \notin DOMAIN st.node_connections
    THEN Panicked(st, "handle_inbound_message: no connection", <<>>, "none")
    ELSE
    CASE Arm(wrapped) = "Ping" ->
            Reply(PongMessage_from_ping(wrapped),
                  "send_message: pong longer than 65535 bytes")
      [] Arm(wrapped) = "NodeAnnouncement" ->
            IF wrapped.node_id \in DOMAIN st.node_connections
            THEN Returned(st, "Ok", <<>>, "none")
            ELSE Found(IF wrapped.node_id \notin DOMAIN st.known_nodes
                       THEN [st EXCEPT !.known_nodes =
                                Insert(@, wrapped.node_id, wrapped)]
                       ELSE st,
                       NodeAnnouncementMessage_as_node(wrapped))
      [] Arm(wrapped) = "ChannelAnnouncement" ->
            Returned([st EXCEPT !.known_channels = KnownChannelsWith(@, wrapped)],
                     "Ok", <<>>, "none")
      [] Arm(wrapped) = "GossipTimestampFilter" ->
            Reply(OurFilter(wrapped),
                  "send_message: filter longer than 65535 bytes")
      [] OTHER -> Returned(st, "Ok", <<>>, "none")

(***************************************************************************)
(* The transport of one connection: node_connection.rs over the            *)
(* PeerChannelEncryptor of the lightning crate                             *)
(***************************************************************************)
\* Messages encrypted or decrypted on the connection in one direction
MaxWireMessages == 502

\* Messages the other direction has carried while one direction runs on
MaxWireMix == 2

\* A key is named by the number of rotations that led to it from the key the
\* handshake gave (-1: no key yet).  hkdf_extract_expand_twice(ck, k): the
\* next chaining key and the next key.
hkdf_extract_expand_twice(ck, k) == [ck |-> ck + 1, k |-> k + 1]

\* PeerChannelEncryptor::new_outbound: the next step is Act One
PeerChannelEncryptor_new_outbound ==
    [noise_step |-> "ActOne", sk |-> -1, sck |-> -1, sn |-> 0,
     rk |-> -1, rck |-> -1, rn |-> 0]

\* PeerChannelEncryptor::get_act_one: the 50 bytes of Act One; it returns
\* them as they are, not in a Result, and panics at any step but the first.
PeerChannelEncryptor_get_act_one(enc) ==
    IF enc.noise_step # "ActOne" THEN Panic
    ELSE [tag |-> "Ok", enc |-> [enc EXCEPT !.noise_step = "ActTwo"],
          act |-> [kind |-> "act_one", len |-> 50]]

\* PeerChannelEncryptor::process_act_two: panics at any step but the second;
\* an Act Two of a wrong version or with a bad tag is an Err and changes
\* nothing; a good one gives the 66 bytes of Act Three and the two keys.
PeerChannelEncryptor_process_act_two(enc, act_two) ==
    IF enc.noise_step # "ActTwo" THEN Panic
    ELSE IF act_two # "ok" THEN [tag |-> "Err", err |-> "LightningError"]
    ELSE [tag |-> "Ok",
          enc |-> [enc EXCEPT !.noise_step = "NoiseComplete",
                              !.sk = 0, !.sck = 0, !.sn = 0,
                              !.rk = 0, !.rck = 0, !.rn = 0],
          act |-> [kind |-> "act_three", len |-> 66]]

\* One AEAD ciphertext: the key and nonce it was made with, its plaintext,
\* whether its tag verifies, and its length on the wire (16 bytes of tag)
Sealed(key, nonce, plain) ==
    [key |-> key, nonce |-> nonce, plain |-> plain, mac_ok |-> TRUE,
     len |-> Len(plain) + 16]

\* A sending state whose nonce has reached 1000 takes the next key and starts
\* again at nonce 0
SendKeyRotated(enc) ==
    IF enc.sn >= 1000
    THEN [enc EXCEPT !.sck = hkdf_extract_expand_twice(enc.sck, enc.sk).ck,
                     !.sk = hkdf_extract_expand_twice(enc.sck, enc.sk).k,
                     !.sn = 0]
    ELSE enc

\* An encrypt_buffer that uses one nonce for the header and the body
Mutant_encrypt_buffer_one_nonce(enc, bytes) ==
    IF enc.noise_step # "NoiseComplete" THEN Panic
    ELSE [tag |-> "Ok",
          enc |-> [SendKeyRotated(enc) EXCEPT !.sn = @ + 1],
          frame |-> [kind |-> "frame",
                     hdr |-> Sealed(SendKeyRotated(enc).sk, SendKeyRotated(enc).sn,
                                    U16ToBe(Len(bytes))),
                     body |-> Sealed(SendKeyRotated(enc).sk,
                                     SendKeyRotated(enc).sn, bytes)]]

\* An encrypt_buffer whose rotation takes the next key in both directions
Mutant_encrypt_buffer_rotates_both(enc, bytes) ==
    IF enc.noise_step # "NoiseComplete" THEN Panic
    ELSE [tag |-> "Ok",
          enc |-> [SendKeyRotated(enc) EXCEPT
                      !.sn = @ + 2,
                      !.rk = IF enc.sn >= 1000 THEN @ + 1 ELSE @,
                      !.rck = IF enc.sn >= 1000 THEN @ + 1 ELSE @,
                      !.rn = IF enc.sn >= 1000 THEN 0 ELSE @],
          frame |-> [kind |-> "frame",
                     hdr |-> Sealed(SendKeyRotated(enc).sk, SendKeyRotated(enc).sn,
                                    U16ToBe(Len(bytes))),
                     body |-> Sealed(SendKeyRotated(enc).sk,
                                     SendKeyRotated(enc).sn + 1, bytes)]]

\* PeerChannelEncryptor::encrypt_buffer: panics before the handshake is
\* complete; rotates the sending key when sn has reached 1000; encrypts the
\* two bytes of length with sn and the message with sn + 1.
PeerChannelEncryptor_encrypt_buffer(enc, bytes) ==
    IF enc.noise_step # "NoiseComplete" THEN Panic
    ELSE [tag |-> "Ok",
          enc |-> [SendKeyRotated(enc) EXCEPT !.sn = @ + 2],
          frame |-> [kind |-> "frame",
                     hdr |-> Sealed(SendKeyRotated(enc).sk, SendKeyRotated(enc).sn,
                                    U16ToBe(Len(bytes))),
                     body |-> Sealed(SendKeyRotated(enc).sk,
                                     SendKeyRotated(enc).sn + 1, bytes)]]

\* PeerChannelEncryptor::decrypt_message: panics before the handshake is
\* complete; decrypts with rk and rn and then increments rn; it does not look
\* at how large rn is.  The plaintext comes back in place, the 16 bytes of
\* tag behind it.
PeerChannelEncryptor_decrypt_message(enc, msg) ==
    IF enc.noise_step # "NoiseComplete" THEN Panic
    ELSE IF msg.mac_ok /\ msg.key = enc.rk /\ msg.nonce = enc.rn
    THEN [tag |-> "Ok", enc |-> [enc EXCEPT !.rn = @ + 1],
          value |-> msg.plain \o Fill(16, 0), used |-> <<enc.rk, enc.rn>>]
    ELSE [tag |-> "Err", err |-> "LightningError"]

\* What a call on the connection gives: what it returned (res), the
\* encryptor after it (enc), what it wrote to the socket, in order (wrote),
\* and the (key, nonce) pairs it encrypted or decrypted with, in order (used).
WireOut(res, enc, wrote, used) ==
    [res |-> res, enc |-> enc, wrote |-> wrote, used |-> used]

Unit == [tag |-> "Ok"]

\* NodeConnection::send_act_one
NodeConnection_send_act_one(enc, write_ok) ==
    IF PeerChannelEncryptor_get_act_one(enc).tag = "Panic"
    THEN WireOut(Panic, enc, <<>>, <<>>)
    ELSE IF ~write_ok
    THEN WireOut(Err("SocketError"), PeerChannelEncryptor_get_act_one(enc).enc,
                 <<>>, <<>>)
    ELSE WireOut(Unit, PeerChannelEncryptor_get_act_one(enc).enc,
                 <<PeerChannelEncryptor_get_act_one(enc).act>>, <<>>)

\* NodeConnection::process_act_two
NodeConnection_process_act_two(enc, act_two, write_ok) ==
    CASE PeerChannelEncryptor_process_act_two(enc, act_two).tag = "Panic" ->
            WireOut(Panic, enc, <<>>, <<>>)
      [] PeerChannelEncryptor_process_act_two(enc, act_two).tag = "Err" ->
            WireOut(Err("SocketError"), enc, <<>>, <<>>)
      [] OTHER ->
            IF ~write_ok
            THEN WireOut(Err("SocketError"),
                         PeerChannelEncryptor_process_act_two(enc, act_two).enc,
                         <<>>, <<>>)
            ELSE WireOut(Unit,
                         PeerChannelEncryptor_process_act_two(enc, act_two).enc,
                         <<PeerChannelEncryptor_process_act_two(enc, act_two).act>>,
                         <<>>)

\* What the remote node and the network do during a handshake
HandshakeEnvs == OpenEnvs \ {"connect_fail", "init_write_fail"}

\* The rest of NodeConnection::handshake once send_act_one has given a
HandshakeAfterActOne(a, env) ==
    IF a.res.tag # "Ok" THEN a
    ELSE IF env = "act_two_io_error"
    THEN WireOut(Err("SocketError"), a.enc, a.wrote, <<>>)
    ELSE [NodeConnection_process_act_two(
              a.enc,
              IF env \in {"act_two_bad_version", "act_two_bad_tag"}
              THEN env ELSE "ok",
              env # "act_three_write_fail")
          EXCEPT !.wrote = a.wrote \o @]

\* NodeConnection::handshake, at the level of the encryptor and the socket
NodeConnection_handshake_steps(enc, env) ==
    HandshakeAfterActOne(
        NodeConnection_send_act_one(enc, env # "act_one_write_fail"), env)

\* NodeConnection::send_init: the seven bytes of the init written as they are
NodeConnection_send_init(enc, write_ok) ==
    IF ~write_ok THEN WireOut(Err("SocketError"), enc, <<>>, <<>>)
    ELSE WireOut(Unit, enc, <<[kind |-> "plain", bytes |-> OurInit]>>, <<>>)

\* The rest of NodeConnection::send_message once encrypt_buffer has given e
SendEncrypted(enc, e, write_ok) ==
    IF e.tag = "Panic" THEN WireOut(Panic, enc, <<>>, <<>>)
    ELSE WireOut(IF write_ok THEN Unit ELSE Err("SocketError"),
                 e.enc,
                 IF write_ok THEN <<e.frame>> ELSE <<>>,
                 <<<<e.frame.hdr.key, e.frame.hdr.nonce>>,
                   <<e.frame.body.key, e.frame.body.nonce>>>>)

\* NodeConnection::send_message, at the level of the encryptor and the
\* socket: MessageBuf::from_encoded, encrypt_buffer, write_all
NodeConnection_send_message_frame(enc, bytes, write_ok) ==
    IF Len(bytes) > 65535 THEN WireOut(Panic, enc, <<>>, <<>>)
    ELSE SendEncrypted(enc, PeerChannelEncryptor_encrypt_buffer(enc, bytes),
                       write_ok)

\* The rest of NodeConnection::read_stream once decrypt_message(header) has
\* given h: unwrap, the body read, decrypt_message(message).unwrap()
ReadBody(enc, h, item) ==
    IF h.tag # "Ok" THEN WireOut(Panic, enc, <<>>, <<>>)
    ELSE \* (b is evaluated once)
         CHOOSE o \in
            {IF b.tag # "Ok" THEN WireOut(Panic, h.enc, <<>>, <<h.used>>)
             ELSE WireOut(Ok(b.value, <<>>), b.enc, <<>>, <<h.used, b.used>>)
               : b \in {PeerChannelEncryptor_decrypt_message(h.enc, item.body)}} :
            TRUE

\* NodeConnection::read_stream, at the level of the encryptor and the socket
NodeConnection_read_stream_frame(enc, item) ==
    CASE item.kind = "reset" -> WireOut(Err("SocketError"), enc, <<>>, <<>>)
      [] item.kind = "eof" -> WireOut(Err("InvalidHeaderLength"), enc, <<>>, <<>>)
      [] item.kind = "frame" ->
            ReadBody(enc, PeerChannelEncryptor_decrypt_message(enc, item.hdr), item)

\* NodeConnection::read_next_message over read_stream's result s
NodeConnection_read_next_message_frame(enc, item) ==
    [res |-> DecodeRead([res |-> NodeConnection_read_stream_frame(enc, item).res,
                         conn |-> <<>>]).res,
     enc |-> NodeConnection_read_stream_frame(enc, item).enc,
     wrote |-> <<>>,
     used |-> NodeConnection_read_stream_frame(enc, item).used]

\* The remote node's sending state as BOLT 8 has it: two nonces a message,
\* and the next key with nonce 0 once the nonce has reached 1000
RemoteAfterFrame(remote) ==
    IF remote.nonce + 2 >= 1000
    THEN [key |-> remote.key + 1, nonce |-> 0]
    ELSE [key |-> remote.key, nonce |-> remote.nonce + 2]

\* The frame the remote node sends next, its plaintext a pong
RemoteFrame(remote) ==
    [kind |-> "frame",
     hdr |-> Sealed(remote.key, remote.nonce, U16ToBe(Len(PlainBytes("pong")))),
     body |-> Sealed(remote.key, remote.nonce + 1, PlainBytes("pong"))]

\* What a read on the socket may find: the remote's next frame, that frame
\* with a header or a body whose tag does not verify, the end of the stream,
\* an I/O error
WireItems(remote) ==
    {RemoteFrame(remote),
     [RemoteFrame(remote) EXCEPT !.hdr.mac_ok = FALSE],
     [RemoteFrame(remote) EXCEPT !.body.mac_ok = FALSE],
     [kind |-> "eof"], [kind |-> "reset"]}

\* The messages sent on the connection in the runs checked
WireMessages == {OurInit, MessageContainer_to_bytes(HeartbeatPing)}

(***************************************************************************)
(* The socket as a stream of bytes.  What the remote node sends is a row   *)
(* of units, Act Two and then frames of a header and a body; TCP delivers  *)
(* it in pieces that need not end where a unit ends.                       *)
(***************************************************************************)
MaxStreamFrames == 2

\* The frames the remote node sends after the handshake, from frame j on:
\* a header and a body each, sealed with key 0 and the nonces in order
RECURSIVE RemoteFrameUnits(_)
RemoteFrameUnits(j) ==
    IF j > MaxStreamFrames THEN <<>>
    ELSE <<[kind |-> "hdr", len |-> 18,
            ct |-> Sealed(0, 2 * (j - 1), U16ToBe(Len(PlainBytes("pong"))))],
           [kind |-> "body", len |-> Len(PlainBytes("pong")) + 16,
            ct |-> Sealed(0, 2 * (j - 1) + 1, PlainBytes("pong"))]>>
         \o RemoteFrameUnits(j + 1)

\* All the remote node sends: the 50 bytes of Act Two, good or not, and the
\* frames
RemoteStream(act_two) ==
    <<[kind |-> "act_two", len |-> 50, ct |-> act_two]>> \o RemoteFrameUnits(1)

\* The offset in the stream at which unit i begins
RECURSIVE UnitStart(_, _)
UnitStart(units, i) ==
    IF i <= 1 THEN 0 ELSE UnitStart(units, i - 1) + units[i - 1].len

StreamLen(units) == UnitStart(units, Len(units) + 1)

\* The bytes of the stream from offset from up to offset to: the unit that
\* lies there exactly, or bytes that are no whole unit (torn)
Slice(units, from, to) ==
    IF \E i \in DOMAIN units :
          UnitStart(units, i) = from /\ UnitStart(units, i + 1) = to
    THEN units[CHOOSE i \in DOMAIN units :
                  UnitStart(units, i) = from /\ UnitStart(units, i + 1) = to]
    ELSE [kind |-> "torn", len |-> to - from,
          ct |-> [key |-> -1, nonce |-> -1, plain |-> <<>>, mac_ok |-> FALSE,
                  len |-> to - from]]

\* What one read on the socket may give when num_bytes are asked for: an
\* I/O error, the end of the stream, or the n bytes that have arrived, one
\* at least and num_bytes at most
SocketReads(sock, num_bytes) ==
    {[kind |-> "reset", n |-> 0], [kind |-> "eof", n |-> 0]}
    \cup (IF sock.closed THEN {}
          ELSE {[kind |-> "data", n |-> n] : n \in
                   {m \in 1..num_bytes : sock.pos + m <= StreamLen(sock.units)}})

\* NodeConnection::read_n_bytes: one read into a buffer of num_bytes, and the
\* bytes that read gave, however few
NodeConnection_read_n_bytes(sock, num_bytes, r) ==
    CASE r.kind = "reset" -> [tag |-> "Err", err |-> "SocketError", sock |-> sock]
      [] r.kind = "eof" ->
            [tag |-> "Ok", sock |-> [sock EXCEPT !.closed = TRUE],
             value |-> Slice(<<>>, sock.pos, sock.pos)]
      [] r.kind = "data" ->
            [tag |-> "Ok", sock |-> [sock EXCEPT !.pos = @ + r.n],
             value |-> Slice(sock.units, sock.pos, sock.pos + r.n)]

\* PeerChannelEncryptor::process_act_two on the bytes read: it asserts that
\* they are 50 before it looks at them
PeerChannelEncryptor_process_act_two_bytes(enc, bytes) ==
    IF bytes.len # 50 THEN Panic
    ELSE PeerChannelEncryptor_process_act_two(
             enc, IF bytes.kind = "act_two" THEN bytes.ct ELSE "act_two_bad_tag")

\* What a call on the connection gives, with the socket after it, the reads
\* it made, each as (bytes asked for, bytes got), and the lengths of the
\* buffers it gave to decrypt_message
StreamOut(res, enc, sock, wrote, reads, decrypted) ==
    [res |-> res, enc |-> enc, sock |-> sock, wrote |-> wrote, used |-> <<>>,
     reads |-> reads, decrypted |-> decrypted]

\* NodeConnection::process_act_two on the bytes read
NodeConnection_process_act_two_bytes(enc, sock, bytes, reads, wrote, write_ok) ==
    CASE PeerChannelEncryptor_process_act_two_bytes(enc, bytes).tag = "Panic" ->
            StreamOut(Panic, enc, sock, wrote, reads, <<>>)
      [] PeerChannelEncryptor_process_act_two_bytes(enc, bytes).tag = "Err" ->
            StreamOut(Err("SocketError"), enc, sock, wrote, reads, <<>>)
      [] OTHER ->
            StreamOut(IF write_ok THEN Unit ELSE Err("SocketError"),
                      PeerChannelEncryptor_process_act_two_bytes(enc, bytes).enc,
                      sock,
                      IF write_ok
                      THEN wrote \o <<PeerChannelEncryptor_process_act_two_bytes(
                                          enc, bytes).act>>
                      ELSE wrote,
                      reads, <<>>)

\* The rest of NodeConnection::handshake once read_n_bytes(66) has given rd
HandshakeAfterRead(a, rd, n, write_ok) ==
    IF rd.tag = "Err"
    THEN StreamOut(Err("SocketError"), a.enc, rd.sock, a.wrote, <<<<66, 0>>>>,
                   <<>>)
    ELSE NodeConnection_process_act_two_bytes(a.enc, rd.sock, rd.value,
                                              <<<<66, n>>>>, a.wrote, write_ok)

\* NodeConnection::handshake over the stream: send_act_one, one read of up to
\* 66 bytes, process_act_two on what it gave
NodeConnection_handshake_stream(enc, sock, act_one_ok, r, act_three_ok) ==
    IF NodeConnection_send_act_one(enc, act_one_ok).res.tag # "Ok"
    THEN StreamOut(NodeConnection_send_act_one(enc, act_one_ok).res,
                   NodeConnection_send_act_one(enc, act_one_ok).enc,
                   sock, <<>>, <<>>, <<>>)
    ELSE HandshakeAfterRead(NodeConnection_send_act_one(enc, act_one_ok),
                            NodeConnection_read_n_bytes(sock, 66, r), r.n,
                            act_three_ok)

\* The end of NodeConnection::read_stream: decrypt_message(message).unwrap()
\* on the bytes the second read gave
ReadStreamBody(h, rd, reads) ==
    IF rd.tag = "Err"
    THEN StreamOut(Err("SocketError"), h.enc, rd.sock, <<>>, reads, <<18>>)
    ELSE IF rd.value.len < 16
            \/ PeerChannelEncryptor_decrypt_message(h.enc, rd.value.ct).tag # "Ok"
    THEN StreamOut(Panic, h.enc, rd.sock, <<>>, reads, <<18, rd.value.len>>)
    ELSE StreamOut(
             Ok(PeerChannelEncryptor_decrypt_message(h.enc, rd.value.ct).value,
                <<>>),
             PeerChannelEncryptor_decrypt_message(h.enc, rd.value.ct).enc,
             rd.sock, <<>>, reads, <<18, rd.value.len>>)

\* The length a decrypted header gives: u16::from_be_bytes of its first two
\* bytes
HeaderLength(h) == U16FromBe(Take(h.value, 2))

\* The middle of NodeConnection::read_stream: decrypt_message(header)
\* .unwrap(), the length, and one read of up to length + 16 bytes
ReadStreamHeader(h, enc, rd, r2) ==
    IF h.tag # "Ok"
    THEN StreamOut(Panic, enc, rd.sock, <<>>, <<<<18, 18>>>>, <<18>>)
    ELSE ReadStreamBody(h,
             NodeConnection_read_n_bytes(rd.sock, HeaderLength(h) + 16, r2),
             <<<<18, 18>>, <<HeaderLength(h) + 16, r2.n>>>>)

\* What the second read of read_stream may give, when there is one
BodyReads(enc, rd) ==
    IF rd.tag = "Ok" /\ rd.value.len = 18
       /\ PeerChannelEncryptor_decrypt_message(enc, rd.value.ct).tag = "Ok"
    THEN SocketReads(rd.sock,
             HeaderLength(PeerChannelEncryptor_decrypt_message(enc, rd.value.ct))
             + 16)
    ELSE {[kind |-> "none", n |-> 0]}

\* NodeConnection::read_stream over the stream: one read of up to 18 bytes,
\* and the rest when it gave 18
NodeConnection_read_stream_bytes(enc, sock, r, r2) ==
    IF NodeConnection_read_n_bytes(sock, 18, r).tag = "Err"
    THEN StreamOut(Err("SocketError"), enc, sock, <<>>, <<<<18, 0>>>>, <<>>)
    ELSE IF NodeConnection_read_n_bytes(sock, 18, r).value.len # 18
    THEN StreamOut(Err("InvalidHeaderLength"), enc,
                   NodeConnection_read_n_bytes(sock, 18, r).sock, <<>>,
                   <<<<18, r.n>>>>, <<>>)
    ELSE ReadStreamHeader(
             PeerChannelEncryptor_decrypt_message(
                 enc, NodeConnection_read_n_bytes(sock, 18, r).value.ct),
             enc, NodeConnection_read_n_bytes(sock, 18, r), r2)

\* NodeConnection::read_next_message over read_stream's result
NodeConnection_read_next_message_bytes(enc, sock, r, r2) ==
    [NodeConnection_read_stream_bytes(enc, sock, r, r2) EXCEPT
        !.res = DecodeRead([res |-> @, conn |-> <<>>]).res]

(***************************************************************************)
(* State                                                                   *)
(***************************************************************************)
VARIABLES
    input, cstep, decoded, reencoded,   \* the codec applied to one byte string
    peer,          \* the MiniPeer: node_connections, known_channels, known_nodes
    pc,            \* where the program is: setup, read, dispatch, panicked, codec
    to_visit,      \* keys the read loop of this pass has still to visit
    inbounds,      \* (message, key) pairs read in this pass, not yet dispatched
    disconnects,   \* keys whose read gave an I/O error in this pass
    pass,          \* history of the current pass: the connection ids at its start,
                   \* the (key, id) of reads that gave an I/O error, the messages
                   \* read and the messages handled, and the arrival numbers of
                   \* the messages in inbounds
    last,          \* history: the last call and what it gave
    setup_opens,   \* connections opened before the event loop
    deliveries,    \* items delivered by the remote nodes so far
    wenc,          \* the transport of one connection: its peer_encryptor
    remote,        \* the key and nonce the remote node sends its next frame with
    wpc,           \* that connection's program: idle, open, panicked
    whist,         \* history: messages sent and received, in all and with the
                   \* current key, and the latest (key, nonce) used each way
    wlast,         \* history: the last call on that connection and what it gave
    sock           \* that connection's socket: what the remote node sends, how
                   \* much of it has been read, whether its end was met

codec_vars == <<input, cstep, decoded, reencoded>>

peer_vars == <<peer, pc, to_visit, inbounds, disconnects, pass, last,
               setup_opens, deliveries>>

wire_vars == <<wenc, remote, wpc, whist, wlast, sock>>

vars == <<codec_vars, peer_vars, wire_vars>>

NoCall ==
    [op |-> "none", key |-> <<>>, env |-> "none", ret |-> "none",
     panic |-> "none", writes |-> <<>>, open_result |-> "none",
     message |-> [type |-> "none"], had_key |-> FALSE]

NewPass(conns) ==
    [start_ids |-> {conns[k].id : k \in DOMAIN conns}, io_errors |-> {},
     read_ok |-> 0, handled |-> 0, seqs |-> <<>>]

\* MiniPeer::new, with DO_CONNECT_TO_NEW_NODES as configured
MiniPeer_new(do_connect) ==
    [node_connections |-> <<>>, known_channels |-> <<>>, known_nodes |-> <<>>,
     next_id |-> 1, connect_to_new_nodes |-> do_connect]

\* A socket of which nothing is read
NoStream == [units |-> <<>>, pos |-> 0, closed |-> FALSE]

\* MiniPeer::num_connections
MiniPeer_num_connections(st) == Cardinality(DOMAIN st.node_connections)

\* The transport model at rest, in the runs that are not about it
NoWireCall ==
    [op |-> "none", res |-> [tag |-> "None"],
     before |-> PeerChannelEncryptor_new_outbound,
     hist |-> [sent |-> 0, received |-> 0, sent_with_key |-> 0,
               received_with_key |-> 0, sent_last |-> <<-1, -1>>,
               received_last |-> <<-1, -1>>],
     wrote |-> <<>>, used |-> <<>>]

WireIdle ==
    /\ wenc = PeerChannelEncryptor_new_outbound
    /\ remote = [key |-> -1, nonce |-> 0]
    /\ wpc = "idle"
    /\ whist = NoWireCall.hist
    /\ wlast = NoWireCall
    /\ sock = NoStream

(***************************************************************************)
(* The codec on its own                                                    *)
(***************************************************************************)
PeerIdle ==
    /\ peer = MiniPeer_new(FALSE)
    /\ pc = "codec"
    /\ to_visit = {}
    /\ inbounds = <<>>
    /\ disconnects = <<>>
    /\ pass = NewPass(<<>>)
    /\ last = NoCall
    /\ setup_opens = 0
    /\ deliveries = 0

CodecInit ==
    /\ input \in CodecInputs
    /\ cstep = "input"
    /\ decoded = [tag |-> "None"]
    /\ reencoded = <<>>
    /\ PeerIdle
    /\ WireIdle

\* MessageDecoder::from_bytes(input)
Decode ==
    /\ cstep = "input"
    /\ decoded' = MessageDecoder_from_bytes(input)
    /\ cstep' = "decoded"
    /\ UNCHANGED <<input, reencoded, peer_vars, wire_vars>>

\* [msg.to_bytes(), remainder.to_vec()].concat()
Encode ==
    /\ cstep = "decoded"
    /\ decoded.tag = "Ok"
    /\ reencoded' = MessageContainer_to_bytes(decoded.value) \o decoded.rest
    /\ cstep' = "encoded"
    /\ UNCHANGED <<input, decoded, peer_vars, wire_vars>>

CodecNext == Decode \/ Encode

CodecSpec == CodecInit /\ [][CodecNext]_vars

(***************************************************************************)
(* The wire primitives on their own                                        *)
(***************************************************************************)
PrimKinds ==
    {"MessageTypeWire", "U16SizedBytesWire", "TLVStreamElement", "U16IntWire",
     "U32IntWire", "U64IntWire", "SingleByteWire", "SignatureElement",
     "ChainHashElement", "Wire32Bytes", "PointElementWire", "Bytes3Element",
     "ShortChannelIDElement", "NodeAddressesWire"}

\* For each primitive, the bytes of one value of it
PrimExample(kind) ==
    CASE kind = "MessageTypeWire" -> <<0, 16>>
      [] kind = "U16SizedBytesWire" -> Sized(Pattern(MaxFieldLen, 200))
      [] kind = "TLVStreamElement" -> Pattern(MaxFieldLen, 200)
      [] kind = "U16IntWire" -> <<1, 2>>
      [] kind = "U32IntWire" -> <<0, 1, 2, 3>>
      [] kind = "U64IntWire" -> <<0, 0, 0, 0, 0, 1, 2, 3>>
      [] kind = "SingleByteWire" -> <<7>>
      [] kind = "SignatureElement" -> Pattern(64, 1)
      [] kind = "ChainHashElement" -> Pattern(32, 2)
      [] kind = "Wire32Bytes" -> Pattern(32, 3)
      [] kind = "PointElementWire" -> Pattern(33, 4)
      [] kind = "Bytes3Element" -> Pattern(3, 5)
      [] kind = "ShortChannelIDElement" -> <<0, 1, 0, 0, 0, 2, 0, 3>>
      [] kind = "NodeAddressesWire" -> Sized(<<1>> \o Pattern(6, 10))

\* Those bytes followed by one more byte, and every shorter beginning of that
PrimTruncations ==
    UNION {{[kind |-> k, form |-> "bytes",
             bytes |-> Take(PrimExample(k) \o <<9>>, n)] :
               n \in 0..(Len(PrimExample(k)) + 1)} : k \in PrimKinds}

\* The address entries the layout allows: IPv4, IPv6, Tor v2, Tor v3, a DNS
\* hostname, a DNS entry with an empty hostname
ValidAddrEntries == {e \in AddrEntries : e[1] \in 1..5}

RECURSIVE ValidAddrPayloads(_)
ValidAddrPayloads(n) ==
    IF n = 0 THEN {<<>>}
    ELSE ValidAddrPayloads(n - 1)
         \cup {p \o e : p \in ValidAddrPayloads(n - 1), e \in ValidAddrEntries}

\* node_addresses of up to MaxAddrEntries such entries in any order, alone
\* and followed by one more byte
ValidNodeAddressesInputs ==
    {[kind |-> "NodeAddressesWire", form |-> "bytes", bytes |-> Sized(p) \o r] :
        p \in ValidAddrPayloads(MaxAddrEntries), r \in {<<>>, <<9>>}}

\* node_addresses of up to MaxAddrEntries entries of any kind, an entry with
\* a discriminator outside 1..5 among them, alone and followed by one more
\* byte
AnyNodeAddressesInputs ==
    {[kind |-> "NodeAddressesWire", form |-> "bytes", bytes |-> Sized(p) \o r] :
        p \in AddrPayloads(MaxAddrEntries), r \in {<<>>, <<9>>}}

\* The bytes of the short_channel_id inputs
ScidBytes == {0, 1, 255}

\* Every string of eight such bytes, and the nine bytes 00 00 01 00 00 00 02
\* 00 03
ScidByteInputs ==
    {[kind |-> "ShortChannelIDElement", form |-> "bytes", bytes |-> b \o c \o d] :
        b \in [1..3 -> ScidBytes], c \in [1..3 -> ScidBytes],
        d \in [1..2 -> ScidBytes]}
    \cup {[kind |-> "ShortChannelIDElement", form |-> "bytes",
           bytes |-> <<0, 0, 1, 0, 0, 0, 2, 0, 3>>]}

\* short_channel_ids to encode: block and tx below 2^24, output below 2^16
ScidValueInputs ==
    {[kind |-> "ShortChannelIDElement", form |-> "value",
      value |-> [block_height |-> b, tx_index |-> t, output_index |-> o]] :
        b \in {0, 1, 255, 256, 65535, 65536, 16777215},
        t \in {0, 2, 255, 256, 65535, 65536, 16777215},
        o \in {0, 3, 255, 256, 65535}}

PrimInputs ==
    PrimTruncations \cup ValidNodeAddressesInputs \cup AnyNodeAddressesInputs
    \cup ScidByteInputs \cup ScidValueInputs

PrimInit ==
    /\ input \in PrimInputs
    /\ cstep = IF input.form = "bytes" THEN "prim" ELSE "prim_value"
    /\ decoded = [tag |-> "None"]
    /\ reencoded = <<>>
    /\ PeerIdle
    /\ WireIdle

\* T::from_bytes(input)
PrimDecode ==
    /\ cstep = "prim"
    /\ decoded' = Field_from_bytes(input.kind, input.bytes)
    /\ cstep' = "prim_decoded"
    /\ UNCHANGED <<input, reencoded, peer_vars, wire_vars>>

\* [value.to_bytes(), remainder.to_vec()].concat()
PrimEncode ==
    /\ cstep = "prim_decoded"
    /\ decoded.tag = "Ok"
    /\ reencoded' = Field_to_bytes(input.kind, decoded.value) \o decoded.rest
    /\ cstep' = "prim_encoded"
    /\ UNCHANGED <<input, decoded, peer_vars, wire_vars>>

\* value.to_bytes()
PrimEncodeValue ==
    /\ cstep = "prim_value"
    /\ reencoded' = Field_to_bytes(input.kind, input.value)
    /\ cstep' = "value_encoded"
    /\ UNCHANGED <<input, decoded, peer_vars, wire_vars>>

\* T::from_bytes(&value.to_bytes())
PrimDecodeEncoded ==
    /\ cstep = "value_encoded"
    /\ decoded' = Field_from_bytes(input.kind, reencoded)
    /\ cstep' = "value_decoded"
    /\ UNCHANGED <<input, reencoded, peer_vars, wire_vars>>

PrimNext == PrimDecode \/ PrimEncode \/ PrimEncodeValue \/ PrimDecodeEncoded

PrimSpec == PrimInit /\ [][PrimNext]_vars

(***************************************************************************)
(* The peer and its event loop                                             *)
(***************************************************************************)
Init ==
    /\ input = <<>>
    /\ cstep = "idle"
    /\ decoded = [tag |-> "None"]
    /\ reencoded = <<>>
    /\ \E do_connect \in BOOLEAN : peer = MiniPeer_new(do_connect)
    /\ pc = "setup"
    /\ to_visit = {}
    /\ inbounds = <<>>
    /\ disconnects = <<>>
    /\ pass = NewPass(<<>>)
    /\ last = NoCall
    /\ setup_opens = 0
    /\ deliveries = 0
    /\ WireIdle

\* What a read found, by name
ItemName(item) ==
    IF item.kind # "frame" THEN item.kind
    ELSE IF ~item.hdr_ok THEN "bad_header_mac"
    ELSE IF ~item.body_ok THEN "bad_body_mac"
    ELSE item.plain

\* The record of a call: what was called, for which key, and what it gave;
\* had_key says whether the map held the key when the call began
Call(op, key, env, o, message) ==
    [op |-> op, key |-> key, env |-> env, ret |-> o.ret, panic |-> o.panic,
     writes |-> o.writes, open_result |-> o.open_result, message |-> message,
     had_key |-> key \in DOMAIN peer.node_connections]

\* A step that is not a call on the peer or a connection
Step(op, key) == [NoCall EXCEPT !.op = op, !.key = key]

\* Before the event loop starts: open_node_connection for a configured node
SetupOpen(k, env) ==
    /\ pc = "setup"
    /\ setup_opens < MaxSetupOpens
    /\ \E o \in {MiniPeer_open_node_connection(peer, k, env)} :
          /\ peer' = o.st
          /\ pc' = IF o.panic # "none" THEN "panicked" ELSE "setup"
          /\ last' = Call("open_node_connection", k, env, o, [type |-> "none"])
    /\ setup_opens' = setup_opens + 1
    /\ UNCHANGED <<codec_vars, wire_vars, to_visit, inbounds, disconnects, pass, deliveries>>

\* The top of loop { ... }: a pass begins with empty inbounds and disconnects
BeginPass ==
    /\ to_visit' = DOMAIN peer.node_connections
    /\ inbounds' = <<>>
    /\ disconnects' = <<>>
    /\ pass' = NewPass(peer.node_connections)

\* event_loop is entered
StartEventLoop ==
    /\ pc = "setup"
    /\ pc' = "read"
    /\ BeginPass
    /\ last' = Step("event_loop", <<>>)
    /\ UNCHANGED <<codec_vars, wire_vars, peer, setup_opens, deliveries>>

\* A remote node sends something, closes its socket, or the connection breaks
Deliver(k, item) ==
    /\ pc \in {"read", "dispatch"}
    /\ deliveries < MaxDeliveries
    /\ k \in DOMAIN peer.node_connections
    /\ LET q == peer.node_connections[k].inq IN
       /\ Len(q) < MaxQueue
       /\ IF q = <<>> THEN TRUE ELSE q[Len(q)].kind = "frame"
    /\ peer' = [peer EXCEPT !.node_connections[k].inq =
                     Append(@, [item EXCEPT !.seq = deliveries + 1])]
    /\ deliveries' = deliveries + 1
    /\ UNCHANGED <<codec_vars, wire_vars, pc, to_visit, inbounds, disconnects, pass, last,
                   setup_opens>>

\* One turn of for node_conn in node_connections.values_mut(): read_next_message
\* returns once the socket has something to read; then, after a message, the
\* heartbeat ping when one is due.
ReadNext(k, ping_due, write_ok) ==
    /\ pc = "read"
    /\ k \in to_visit
    /\ peer.node_connections[k].inq # <<>>
    /\ to_visit' = to_visit \ {k}
    /\ \E r \in {NodeConnection_read_next_message(peer.node_connections[k])} :
       LET read == [NoCall EXCEPT !.op = "read_next_message", !.key = k,
                                  !.env = ItemName(Head(peer.node_connections[k].inq)),
                                  !.ret = IF r.res.tag = "Err" THEN r.res.err
                                          ELSE r.res.tag]
       IN
       CASE r.res.tag = "Panic" ->
               /\ pc' = "panicked"
               /\ peer' = [peer EXCEPT !.node_connections[k] = r.conn]
               /\ last' = [read EXCEPT !.panic = "read_next_message"]
               /\ UNCHANGED <<inbounds, disconnects, pass>>
         [] r.res.tag = "Err" ->
               /\ pc' = "read"
               /\ peer' = [peer EXCEPT !.node_connections[k] = r.conn]
               /\ disconnects' = IF r.res.err = "SocketError"
                                 THEN Append(disconnects, k) ELSE disconnects
               /\ pass' = IF r.res.err = "SocketError"
                          THEN [pass EXCEPT !.io_errors = @ \cup {<<k, r.conn.id>>}]
                          ELSE pass
               /\ last' = read
               /\ UNCHANGED inbounds
         [] r.res.tag = "Ok" ->
               /\ inbounds' = Append(inbounds, <<r.res.value, k>>)
               /\ pass' = [pass EXCEPT !.read_ok = @ + 1,
                                       !.seqs = Append(@, Head(peer.node_connections[k].inq).seq)]
               /\ IF NodeConnection_ready_for_ping(r.conn, ping_due)
                  THEN \E w \in {NodeConnection_send_ping(r.conn, write_ok)} :
                       IF w.tag = "Ok"
                       THEN /\ pc' = "read"
                            /\ peer' = [peer EXCEPT !.node_connections[k] = w.conn]
                            /\ last' = [read EXCEPT !.writes = <<<<k, w.wire>>>>,
                                                    !.message = r.res.value]
                       ELSE /\ pc' = "panicked"
                            /\ peer' = [peer EXCEPT !.node_connections[k] = r.conn]
                            /\ last' = [read EXCEPT !.panic = "send_ping failed",
                                                    !.message = r.res.value]
                  ELSE /\ pc' = "read"
                       /\ peer' = [peer EXCEPT !.node_connections[k] = r.conn]
                       /\ last' = [read EXCEPT !.message = r.res.value]
               /\ UNCHANGED disconnects
    /\ UNCHANGED <<codec_vars, wire_vars, setup_opens, deliveries>>

RECURSIVE RemoveAll(_, _)
RemoveAll(conns, keys) ==
    IF keys = <<>> THEN conns ELSE RemoveAll(Remove(conns, Head(keys)), Tail(keys))

\* A pass that removes no connection
Mutant_RemoveDisconnected_none ==
    /\ pc = "read"
    /\ to_visit = {}
    /\ pc' = "dispatch"
    /\ last' = Step("remove_disconnected", <<>>)
    /\ UNCHANGED <<codec_vars, wire_vars, peer, to_visit, inbounds, disconnects, pass,
                   setup_opens, deliveries>>

\* A removal loop that drops every connection of the map
Mutant_RemoveDisconnected_all ==
    /\ pc = "read"
    /\ to_visit = {}
    /\ peer' = [peer EXCEPT !.node_connections = <<>>]
    /\ pc' = "dispatch"
    /\ last' = Step("remove_disconnected", <<>>)
    /\ UNCHANGED <<codec_vars, wire_vars, to_visit, inbounds, disconnects, pass,
                   setup_opens, deliveries>>

\* for node_public_key in disconnects { node_connections.remove(..) }
RemoveDisconnected ==
    /\ pc = "read"
    /\ to_visit = {}
    /\ peer' = [peer EXCEPT !.node_connections = RemoveAll(@, disconnects)]
    /\ pc' = "dispatch"
    /\ last' = Step("remove_disconnected", <<>>)
    /\ UNCHANGED <<codec_vars, wire_vars, to_visit, inbounds, disconnects, pass,
                   setup_opens, deliveries>>

\* A loop that hands a message to handle_inbound_message as soon as it is
\* read, before the other connections are read and the failed ones removed
Mutant_Dispatch_at_once(write_ok, open_env) ==
    /\ pc \in {"read", "dispatch"}
    /\ inbounds # <<>>
    /\ \E o \in {MiniPeer_handle_inbound_message(peer, Head(inbounds)[1],
                     Head(inbounds)[2], write_ok, open_env)} :
          /\ peer' = IF Head(inbounds)[2] \in DOMAIN o.st.node_connections
                      THEN [o.st EXCEPT !.node_connections[Head(inbounds)[2]].dispatched =
                               Append(@, <<Head(pass.seqs), Head(inbounds)[1].type>>)]
                      ELSE o.st
          /\ pc' = IF o.panic # "none" \/ o.ret # "Ok" THEN "panicked" ELSE pc
          /\ last' = Call("handle_inbound_message", Head(inbounds)[2], "none", o,
                          Head(inbounds)[1])
    /\ inbounds' = Tail(inbounds)
    /\ pass' = [pass EXCEPT !.handled = @ + 1, !.seqs = Tail(@)]
    /\ UNCHANGED <<codec_vars, wire_vars, to_visit, disconnects, setup_opens, deliveries>>

\* One turn of for (message, node_public_key) in inbounds:
\* handle_inbound_message(..).await.unwrap()
Dispatch(write_ok, open_env) ==
    /\ pc = "dispatch"
    /\ inbounds # <<>>
    /\ \E o \in {MiniPeer_handle_inbound_message(peer, Head(inbounds)[1],
                     Head(inbounds)[2], write_ok, open_env)} :
          /\ peer' = IF Head(inbounds)[2] \in DOMAIN o.st.node_connections
                      THEN [o.st EXCEPT !.node_connections[Head(inbounds)[2]].dispatched =
                               Append(@, <<Head(pass.seqs), Head(inbounds)[1].type>>)]
                      ELSE o.st
          /\ pc' = IF o.panic # "none" \/ o.ret # "Ok" THEN "panicked" ELSE "dispatch"
          /\ last' = Call("handle_inbound_message", Head(inbounds)[2], "none", o,
                          Head(inbounds)[1])
    /\ inbounds' = Tail(inbounds)
    /\ pass' = [pass EXCEPT !.handled = @ + 1, !.seqs = Tail(@)]
    /\ UNCHANGED <<codec_vars, wire_vars, to_visit, disconnects, setup_opens, deliveries>>

\* tokio::time::sleep(500 ms), then the next pass
Sleep ==
    /\ pc = "dispatch"
    /\ inbounds = <<>>
    /\ pc' = "read"
    /\ BeginPass
    /\ last' = Step("sleep", <<>>)
    /\ UNCHANGED <<codec_vars, wire_vars, peer, setup_opens, deliveries>>

Next ==
    \/ \E k \in Keys, env \in OpenEnvs : SetupOpen(k, env)
    \/ StartEventLoop
    \/ \E k \in Keys, item \in SocketItems : Deliver(k, item)
    \/ \E k \in Keys, ping_due \in BOOLEAN, write_ok \in BOOLEAN :
          ReadNext(k, ping_due, write_ok)
    \/ RemoveDisconnected
    \/ \E write_ok \in BOOLEAN, open_env \in OpenEnvs : Dispatch(write_ok, open_env)
    \/ Sleep

Spec == Init /\ [][Next]_vars

\* The event loop is one task: it takes its next step whenever it can.  The
\* remote nodes are under no obligation to send anything.
EventLoopStep ==
    \/ StartEventLoop
    \/ \E k \in Keys, ping_due \in BOOLEAN, write_ok \in BOOLEAN :
          ReadNext(k, ping_due, write_ok)
    \/ RemoveDisconnected
    \/ \E write_ok \in BOOLEAN, open_env \in OpenEnvs : Dispatch(write_ok, open_env)
    \/ Sleep

\* What the remote nodes send in the runs checked for progress: init, ping
\* and pong, the end of the stream, an I/O error
LiveItems ==
    {item \in SocketItems :
        ItemName(item) \in {"init", "ping", "pong", "eof", "reset"}}

FairNext ==
    \/ \E k \in Keys, env \in OpenEnvs : SetupOpen(k, env)
    \/ \E k \in Keys, item \in LiveItems : Deliver(k, item)
    \/ EventLoopStep

FairSpec == Init /\ [][FairNext]_vars /\ WF_vars(EventLoopStep)

(***************************************************************************)
(* One connection's transport on its own                                   *)
(***************************************************************************)
\* NodeConnection::new has returned: the stream is connected and the
\* encryptor is the one new_outbound gives
WireInit ==
    /\ input = <<>>
    /\ cstep = "idle"
    /\ decoded = [tag |-> "None"]
    /\ reencoded = <<>>
    /\ PeerIdle
    /\ wenc = PeerChannelEncryptor_new_outbound
    /\ remote = [key |-> -1, nonce |-> 0]
    /\ wpc = "open"
    /\ whist = NoWireCall.hist
    /\ wlast = NoWireCall
    /\ sock = NoStream

\* The later of two (key, nonce) pairs: the one of the later key, or of the
\* larger nonce under one key
Later(p, q) ==
    IF p[1] > q[1] \/ (p[1] = q[1] /\ p[2] > q[2]) THEN p ELSE q

\* The latest of the pairs of used and of the pair p
RECURSIVE Latest(_, _)
Latest(used, p) ==
    IF used = <<>> THEN p ELSE Latest(Tail(used), Later(Head(used), p))

\* A call op on the connection that gave o
WireCall(op, o) ==
    /\ wenc' = o.enc
    /\ wpc' = IF o.res.tag = "Panic" THEN "panicked" ELSE "open"
    /\ wlast' = [op |-> op, res |-> o.res, before |-> wenc, hist |-> whist,
                 wrote |-> o.wrote, used |-> o.used]
    /\ UNCHANGED <<codec_vars, peer_vars>>

\* handshake()
WireHandshake(env) ==
    /\ wpc = "open"
    /\ \E o \in {NodeConnection_handshake_steps(wenc, env)} :
          /\ WireCall("handshake", o)
          /\ remote' = IF wenc.noise_step # "NoiseComplete"
                          /\ o.enc.noise_step = "NoiseComplete"
                       THEN [key |-> 0, nonce |-> 0]
                       ELSE remote
    /\ UNCHANGED <<whist, sock>>

\* send_init()
WireSendInit(write_ok) ==
    /\ wpc = "open"
    /\ WireCall("send_init", NodeConnection_send_init(wenc, write_ok))
    /\ UNCHANGED <<remote, whist, sock>>

\* send_message(bytes)
WireSendMessage(bytes, write_ok) ==
    /\ wpc = "open"
    /\ whist.sent < MaxWireMessages
    /\ whist.sent < MaxWireMix \/ whist.received <= MaxWireMix
    /\ \E o \in {NodeConnection_send_message_frame(wenc, bytes, write_ok)} :
          /\ WireCall("send_message", o)
          /\ whist' = IF o.used = <<>> THEN whist
                      ELSE [whist EXCEPT
                               !.sent = @ + 1,
                               !.sent_with_key =
                                   IF o.enc.sk # wenc.sk THEN 1 ELSE @ + 1,
                               !.sent_last = Latest(o.used, @)]
    /\ UNCHANGED <<remote, sock>>

\* read_next_message() when the socket has item to read
WireReadNext(item) ==
    /\ wpc = "open"
    /\ whist.received < MaxWireMessages
    /\ whist.received < MaxWireMix \/ whist.sent <= MaxWireMix
    /\ \E o \in {NodeConnection_read_next_message_frame(wenc, item)} :
          /\ WireCall("read_next_message", o)
          /\ whist' = IF Len(o.used) < 2
                      THEN [whist EXCEPT !.received_last = Latest(o.used, @)]
                      ELSE [whist EXCEPT
                               !.received = @ + 1,
                               !.received_with_key =
                                   IF o.enc.rk # wenc.rk THEN 1 ELSE @ + 1,
                               !.received_last = Latest(o.used, @)]
    /\ remote' = IF item.kind = "frame" THEN RemoteAfterFrame(remote) ELSE remote
    /\ UNCHANGED sock

WireNext ==
    \/ \E env \in HandshakeEnvs : WireHandshake(env)
    \/ \E write_ok \in BOOLEAN : WireSendInit(write_ok)
    \/ \E bytes \in WireMessages, write_ok \in BOOLEAN :
          WireSendMessage(bytes, write_ok)
    \/ \E item \in WireItems(remote) : WireReadNext(item)

WireSpec == WireInit /\ [][WireNext]_vars

(***************************************************************************)
(* One connection reading from its socket as a stream of bytes: handshake  *)
(* and read_next_message under every way TCP may cut what the remote sends *)
(***************************************************************************)
ActTwoForms == {"ok", "act_two_bad_version", "act_two_bad_tag"}

StreamInit ==
    /\ input = <<>>
    /\ cstep = "idle"
    /\ decoded = [tag |-> "None"]
    /\ reencoded = <<>>
    /\ PeerIdle
    /\ wenc = PeerChannelEncryptor_new_outbound
    /\ remote = [key |-> -1, nonce |-> 0]
    /\ wpc = "open"
    /\ whist = NoWireCall.hist
    /\ wlast = NoWireCall
    /\ \E act_two \in ActTwoForms :
          sock = [units |-> RemoteStream(act_two), pos |-> 0, closed |-> FALSE]

\* A call op on the connection that gave o
StreamCall(op, o) ==
    /\ wenc' = o.enc
    /\ sock' = o.sock
    /\ wpc' = IF o.res.tag = "Panic" THEN "panicked" ELSE "open"
    /\ wlast' = [op |-> op, res |-> o.res, before |-> wenc, hist |-> whist,
                 wrote |-> o.wrote, used |-> o.used, reads |-> o.reads,
                 decrypted |-> o.decrypted, pos |-> sock.pos]
    /\ UNCHANGED <<codec_vars, peer_vars, remote, whist>>

\* handshake(), its read finding r
StreamHandshake(act_one_ok, r, act_three_ok) ==
    /\ wpc = "open"
    /\ StreamCall("handshake",
           NodeConnection_handshake_stream(wenc, sock, act_one_ok, r,
                                           act_three_ok))

\* read_next_message(), its reads finding r and r2
StreamReadNext(r, r2) ==
    /\ wpc = "open"
    /\ StreamCall("read_next_message",
           NodeConnection_read_next_message_bytes(wenc, sock, r, r2))

StreamNext ==
    \/ \E act_one_ok \in BOOLEAN, act_three_ok \in BOOLEAN :
          \E r \in SocketReads(sock, 66) :
              StreamHandshake(act_one_ok, r, act_three_ok)
    \/ \E r \in SocketReads(sock, 18) :
          \E r2 \in BodyReads(wenc, NodeConnection_read_n_bytes(sock, 18, r)) :
              StreamReadNext(r, r2)

StreamSpec == StreamInit /\ [][StreamNext]_vars

(***************************************************************************)
(* Properties                                                              *)
(***************************************************************************)
\* C1: round trip.  Whenever MessageDecoder::from_bytes decodes a byte string
\* of an in-scope type, the message re-encoded, followed by the remainder, is
\* that byte string.
C1_RoundTrip ==
    (cstep = "encoded" /\ U16FromBe(input) \in InScopeTypeIds) => reencoded = input

\* C2: unknown-type preservation.  For every type id outside the nine in-scope
\* types, named in MessageType or not, and every payload, the decoder returns
\* Unknown with that id and payload and an empty remainder, and re-encoding it
\* gives the input back; it never errors or aborts.
C2_UnknownPreserved ==
    (Len(input) >= 2 /\ U16FromBe(input) \notin InScopeTypeIds) =>
        /\ cstep # "input" =>
              decoded = Ok([type |-> "Unknown", type_id |-> U16FromBe(input),
                            data |-> Drop(input, 2)], <<>>)
        /\ cstep = "encoded" => reencoded = input

\* C3: the connection map holds only opened connections.  Every connection in
\* the map has completed the Noise handshake and has had init sent as its
\* first message, and a key enters the map, or gets a new connection, only in
\* a step in which open_node_connection succeeded for that key.
C3_MapHoldsOpenedConnections ==
    /\ [](\A k \in DOMAIN peer.node_connections :
            /\ peer.node_connections[k].noise_step = "NoiseComplete"
            /\ peer.node_connections[k].first_sent = MessageType_Init)
    /\ [][\A k \in DOMAIN peer'.node_connections :
            (IF k \in DOMAIN peer.node_connections
             THEN peer'.node_connections[k].id # peer.node_connections[k].id
             ELSE TRUE)
            => /\ last'.open_result = "Ok"
               /\ \E i \in DOMAIN last'.writes : last'.writes[i] = <<k, OurInit>>]_vars

\* C3 happens: a connection whose read gave an I/O error in this pass was
\* removed, and its key is in the map again with a newly opened connection.
C3_Witness ==
    \E e \in pass.io_errors :
        /\ e[1] \in DOMAIN peer.node_connections
        /\ peer.node_connections[e[1]].id # e[2]
        /\ last.open_result = "Ok"

C5_IOErrorRemovesThatConnectionOnly ==
    pc = "dispatch" =>
        /\ \A e \in pass.io_errors : \A k \in DOMAIN peer.node_connections :
              peer.node_connections[k].id # e[2]
        /\ \A id \in pass.start_ids \ {e[2] : e \in pass.io_errors} :
              \E k \in DOMAIN peer.node_connections : peer.node_connections[k].id = id
        /\ pass.handled + Len(inbounds) = pass.read_ok

\* C5 happens: a pass in which one read gave an I/O error has dispatched the
\* message read from another connection, which is still in the map.
C5_Witness ==
    /\ pc = "dispatch"
    /\ inbounds = <<>>
    /\ pass.io_errors # {}
    /\ pass.handled >= 1
    /\ last.op = "handle_inbound_message"
    /\ last.key \in DOMAIN peer.node_connections

\* C6: the loop survives per-connection failures.  The program does not stop
\* because a pong, a filter reply or a heartbeat ping could not be written, or
\* because a connect triggered by a node_announcement failed.
C6_LoopSurvivesConnectionFailures ==
    pc = "panicked" =>
        /\ last.panic # "send_ping failed"
        /\ last.panic # "handle_inbound_message: open_node_connection failed"
        /\ ~(last.op = "handle_inbound_message" /\ last.ret = "NodeConnectionError")

\* C7: a frame that fails AEAD verification is a decryption error.  When the
\* header or body of a frame fails verification, read_next_message returns a
\* decryption error and the peer keeps running.
C7_BadMacIsDecryptionError ==
    (last.op = "read_next_message" /\ last.env \in {"bad_header_mac", "bad_body_mac"})
        => /\ last.ret = "DecryptionError"
           /\ pc # "panicked"

\* C8: a plaintext the codec rejects is a decode error.  When a frame holds a
\* truncated channel_update or a node_announcement with an unknown address
\* discriminator, read_next_message returns MessageDecodeError, nothing is
\* queued for dispatch from it, the connection stays in the map and the loop
\* goes on.
C8_RejectedPlaintextIsDecodeError ==
    (last.op = "read_next_message"
        /\ last.env \in {"channel_update_short", "node_announcement_bad"})
        => /\ last.ret = "MessageDecodeError"
           /\ last.message.type = "none"
           /\ last.key \in DOMAIN peer.node_connections
           /\ pc = "read"

\* C9: a closed connection is removed.  When the remote has closed the socket
\* of a connection in the map, so that the next read yields zero bytes, the
\* connection is eventually out of the map (unless the program has stopped,
\* or waits on a read of another connection).
C9_ClosedConnectionRemoved ==
    \A k \in Keys :
        (/\ pc \in {"read", "dispatch"}
         /\ k \in DOMAIN peer.node_connections
         /\ peer.node_connections[k].inq # <<>>
         /\ Head(peer.node_connections[k].inq).kind = "eof")
        ~> (\/ k \notin DOMAIN peer.node_connections
            \/ pc = "panicked"
            \/ /\ pc = "read"
               /\ to_visit # {}
               /\ \A j \in to_visit : peer.node_connections[j].inq = <<>>)

\* C10: a ping is answered by one pong of num_pong_bytes zero bytes.  When a
\* ping with num_pong_bytes = n has been handled and the write did not fail,
\* exactly one frame was written, on the connection the ping came from, and it
\* is a pong whose ignored field is n zero bytes with length prefix n.
C10_PongOfNumPongBytes ==
    (/\ last.op = "handle_inbound_message"
     /\ last.message.type = "Ping"
     /\ last.ret # "NodeConnectionError")
        => last.writes =
              <<<<last.key,
                  U16ToBe(MessageType_Pong)
                  \o U16ToBe(last.message.num_pong_bytes)
                  \o Fill(last.message.num_pong_bytes, 0)>>>>

\* C11: a gossip_timestamp_filter is answered by our own filter.  When a
\* gossip_timestamp_filter has been handled and the write did not fail,
\* exactly one frame was written, on the connection the filter came from; it
\* decodes to a gossip_timestamp_filter with the chain_hash and timestamp_range
\* received and first_timestamp = 0, and its bytes are the bytes received with
\* the four bytes of first_timestamp replaced by 00000000.
C11_FilterAnsweredWithFirstTimestampZero ==
    (/\ last.op = "handle_inbound_message"
     /\ last.message.type = "GossipTimestampFilter"
     /\ last.ret # "NodeConnectionError")
        => /\ Len(last.writes) = 1
           /\ last.writes[1][1] = last.key
           /\ MessageDecoder_from_bytes(last.writes[1][2]) =
                 Ok([type |-> "GossipTimestampFilter",
                     chain_hash |-> last.message.chain_hash,
                     first_timestamp |-> 0,
                     timestamp_range |-> last.message.timestamp_range], <<>>)
           /\ \E n \in PlainNames, t \in Tags :
                 /\ MessageDecoder_from_bytes(PlainBytes(n) \o t) = Ok(last.message, t)
                 /\ last.writes[1][2] =
                       Take(PlainBytes(n), 34) \o <<0, 0, 0, 0>> \o Drop(PlainBytes(n), 38)

\* C11 happens: a filter whose first_timestamp is not 0 has been handled and
\* the reply written.
C11_Witness ==
    /\ last.op = "handle_inbound_message"
    /\ last.message.type = "GossipTimestampFilter"
    /\ last.message.first_timestamp # 0
    /\ last.ret = "Ok"
    /\ last.writes # <<>>

\* C12: every announced node is known.  Once a node_announcement of node n has
\* been handled, n is a key of known_nodes, connected to n or not.
C12_AnnouncedNodeIsKnown ==
    (last.op = "handle_inbound_message" /\ last.message.type = "NodeAnnouncement")
        => last.message.node_id \in DOMAIN peer.known_nodes

\* C13: when a node_announcement opens a connection.  Once a node_announcement
\* has been handled: if open_node_connection was called, the announcement
\* carries an IPv4 address and connect_to_new_nodes is set; if it carries an
\* IPv4 address, the switch is set and open_node_connection was not called,
\* the peer was connected to the node already; and if open_node_connection
\* was not called, the call did not fail.
C13_OpensOnlyNewIpv4NodesWhenSwitchedOn ==
    LET called == \/ last.open_result # "none"
                  \/ last.panic = "open_node_connection: init not sent"
    IN
    (last.op = "handle_inbound_message" /\ last.message.type = "NodeAnnouncement")
        => /\ called =>
                /\ last.message.addresses.ipv4_addresses # <<>>
                /\ peer.connect_to_new_nodes
           /\ (/\ last.message.addresses.ipv4_addresses # <<>>
               /\ peer.connect_to_new_nodes
               /\ ~called) =>
                    last.message.node_id \in DOMAIN peer.node_connections
           /\ ~called =>
                /\ last.panic = "none"
                /\ last.ret = "Ok"

\* C14: known_channels keeps the first announcement of a channel.  Once a
\* channel_announcement of channel s has been handled, s is a key of
\* known_channels; handling an announcement of a channel that is already a key
\* leaves the table as it was; and no step, dispatch or disconnect, removes an
\* entry or changes the announcement stored under a key.
C14_FirstChannelAnnouncementWins ==
    /\ []((last.op = "handle_inbound_message"
              /\ last.message.type = "ChannelAnnouncement")
            => last.message.short_channel_id \in DOMAIN peer.known_channels)
    /\ [][/\ \A s \in DOMAIN peer.known_channels :
               /\ s \in DOMAIN peer'.known_channels
               /\ peer'.known_channels[s] = peer.known_channels[s]
          /\ (/\ last'.op = "handle_inbound_message"
              /\ last'.message.type = "ChannelAnnouncement"
              /\ inbounds' # inbounds
              /\ last'.message.short_channel_id \in DOMAIN peer.known_channels)
                => peer'.known_channels = peer.known_channels]_vars

\* C14 happens: a second announcement of a channel, different from the one
\* stored, has been handled, and the table holds the first.
C14_Witness ==
    /\ last.op = "handle_inbound_message"
    /\ last.message.type = "ChannelAnnouncement"
    /\ last.message.short_channel_id \in DOMAIN peer.known_channels
    /\ peer.known_channels[last.message.short_channel_id] # last.message

\* C15: the peer writes only init, pongs, filter replies and heartbeat pings.
\* Every frame a call writes is one of: init, in open_node_connection, on the
\* connection being opened (called at setup or for an announced node, never
\* on the connection the announcement came from); the one pong of a handled
\* ping; the one gossip_timestamp_filter of a handled filter; the heartbeat
\* ping after a read.  In particular handling init, pong, channel_announcement,
\* node_announcement, channel_update, query_channel_range, reply_channel_range
\* or an unknown message writes nothing on the connection it came from.
C15_WritesOnlyInitPongFilterHeartbeat ==
    \A i \in DOMAIN last.writes :
        \/ /\ last.op = "open_node_connection"
           /\ last.writes = <<<<last.key, OurInit>>>>
        \/ /\ last.op = "handle_inbound_message"
           /\ last.message.type = "NodeAnnouncement"
           /\ last.writes = <<<<last.message.node_id, OurInit>>>>
           /\ last.message.node_id # last.key
        \/ /\ last.op = "handle_inbound_message"
           /\ last.message.type = "Ping"
           /\ Len(last.writes) = 1
           /\ last.writes[1][1] = last.key
           /\ U16FromBe(last.writes[1][2]) = MessageType_Pong
        \/ /\ last.op = "handle_inbound_message"
           /\ last.message.type = "GossipTimestampFilter"
           /\ Len(last.writes) = 1
           /\ last.writes[1][1] = last.key
           /\ U16FromBe(last.writes[1][2]) = MessageType_GossipTimestampFilter
        \/ /\ last.op = "read_next_message"
           /\ last.message.type # "none"
           /\ last.writes = <<<<last.key, MessageContainer_to_bytes(HeartbeatPing)>>>>

\* C15 happens: a reply_channel_range, one of the types that get no reply, has
\* been handled and nothing was written.
C15_Witness ==
    /\ last.op = "handle_inbound_message"
    /\ last.message.type = "ReplyChannelRange"
    /\ last.ret = "Ok"
    /\ last.writes = <<>>

\* C16: one connection's messages are handled, and answered, in arrival order.
\* For every connection in the map the arrival numbers are strictly
\* increasing along: the messages already dispatched, then its messages
\* waiting in inbounds, then the frames its socket holds unread.  Every
\* dispatch of a message of a connection, and so every reply written in it,
\* is for a frame that arrived after every frame of that connection
\* dispatched before; a call writes its frame before it returns, so replies
\* are written in the order of the dispatches.
C16_HandledInArrivalOrder ==
    /\ [](/\ Len(pass.seqs) = Len(inbounds)
          /\ \A k \in DOMAIN peer.node_connections :
               LET c == peer.node_connections[k]
                   mine == {i \in DOMAIN inbounds : inbounds[i][2] = k}
               IN
               /\ \A p, q \in DOMAIN c.dispatched :
                     p < q => c.dispatched[p][1] < c.dispatched[q][1]
               /\ \A p \in DOMAIN c.dispatched, i \in mine :
                     c.dispatched[p][1] < pass.seqs[i]
               /\ \A i, j \in mine : i < j => pass.seqs[i] < pass.seqs[j]
               /\ \A i \in mine, q \in DOMAIN c.inq : pass.seqs[i] < c.inq[q].seq
               /\ \A p \in DOMAIN c.dispatched, q \in DOMAIN c.inq :
                     c.dispatched[p][1] < c.inq[q].seq
               /\ \A p, q \in DOMAIN c.inq : p < q => c.inq[p].seq < c.inq[q].seq)
    /\ [][\A i \in DOMAIN last'.writes :
            (last'.op = "handle_inbound_message" /\ pass'.handled # pass.handled
                /\ last'.writes[i][1] = last'.key)
            => /\ last'.key \in DOMAIN peer.node_connections
               /\ peer'.node_connections[last'.key].dispatched =
                     Append(peer.node_connections[last'.key].dispatched,
                            <<Head(pass.seqs), last'.message.type>>)]_vars

\* C16 happens: a ping and then a gossip_timestamp_filter arrived on one
\* connection, both were dispatched, and the filter has just been answered.
C16_Witness ==
    /\ last.op = "handle_inbound_message"
    /\ last.message.type = "GossipTimestampFilter"
    /\ last.writes # <<>>
    /\ last.key \in DOMAIN peer.node_connections
    /\ peer.node_connections[last.key].dispatched =
          <<<<1, "Ping">>, <<2, "GossipTimestampFilter">>>>

\* C17: the event loop does not block.  A message that is available on a
\* connection in the map is eventually dispatched (unless the connection is
\* removed or the program has stopped), whatever the other connections
\* receive.
C17_AvailableMessageIsDispatched ==
    \A k \in Keys :
        (/\ pc \in {"read", "dispatch"}
         /\ k \in DOMAIN peer.node_connections
         /\ peer.node_connections[k].inq # <<>>
         /\ ItemName(Head(peer.node_connections[k].inq)) \in {"init", "ping", "pong"})
        ~> (\/ k \notin DOMAIN peer.node_connections
            \/ pc = "panicked"
            \/ /\ k \in DOMAIN peer.node_connections
               /\ peer.node_connections[k].dispatched # <<>>)

\* C18: an idle connection gets a heartbeat ping.  For every connection in the
\* map with nothing to read and no ping pending, eventually a ping is sent on
\* it (unless a message arrives on it, it is removed, or the program stops).
C18_IdleConnectionIsPinged ==
    \A k \in Keys :
        (/\ pc \in {"read", "dispatch"}
         /\ k \in DOMAIN peer.node_connections
         /\ peer.node_connections[k].inq = <<>>
         /\ ~peer.node_connections[k].pending_ping)
        ~> (\/ k \notin DOMAIN peer.node_connections
            \/ pc = "panicked"
            \/ /\ k \in DOMAIN peer.node_connections
               /\ \/ peer.node_connections[k].pending_ping
                  \/ peer.node_connections[k].inq # <<>>)

\* C19: a pong clears the pending ping.  Once a pong has been handled on a
\* connection, that connection has no ping pending.
C19_PongClearsPendingPing ==
    (/\ last.op = "handle_inbound_message"
     /\ last.message.type = "Pong"
     /\ last.key \in DOMAIN peer.node_connections)
        => ~peer.node_connections[last.key].pending_ping

\* C20: init comes first in both directions.  The first message written on
\* every connection in the map is init, and a ping, gossip_timestamp_filter,
\* channel_announcement or node_announcement handled on a connection on which
\* no init of the remote has been handled is not answered and not stored.
C20_InitFirstInBothDirections ==
    /\ \A k \in DOMAIN peer.node_connections :
          peer.node_connections[k].first_sent = MessageType_Init
    /\ (/\ last.op = "handle_inbound_message"
        /\ last.key \in DOMAIN peer.node_connections
        /\ last.message.type \in {"Ping", "GossipTimestampFilter",
                                  "ChannelAnnouncement", "NodeAnnouncement"}
        /\ \A p \in DOMAIN peer.node_connections[last.key].dispatched :
              peer.node_connections[last.key].dispatched[p][2] # "Init")
        => /\ last.writes = <<>>
           /\ last.message.type = "ChannelAnnouncement" =>
                 last.message.short_channel_id \notin DOMAIN peer.known_channels
           /\ last.message.type = "NodeAnnouncement" =>
                 last.message.node_id \notin DOMAIN peer.known_nodes


\* C21: the init open_node_connection sends.  When open_node_connection has
\* returned Ok, it wrote exactly one message, to the node it opened, and the
\* message is an init with empty global_features, exactly one byte of
\* local_features whose bit 0 is set, and an empty tlv (001000000001ff is
\* such a message).
C21_OurInitSetsLocalFeatureBit0 ==
    (last.op = "open_node_connection" /\ last.ret = "Ok")
        => /\ Len(last.writes) = 1
           /\ last.writes[1][1] = last.key
           /\ \E d \in {MessageDecoder_from_bytes(last.writes[1][2])} :
                 /\ d.tag = "Ok"
                 /\ d.rest = <<>>
                 /\ d.value.type = "Init"
                 /\ d.value.global_features = <<>>
                 /\ Len(d.value.local_features) = 1
                 /\ d.value.local_features[1] % 2 = 1
                 /\ d.value.tlv = <<>>


\* C22: every application message is written as one Noise frame.  Whatever a
\* call writes to the socket once the handshake is complete is a frame: an
\* encrypted header of 18 bytes that holds the length of the message, then
\* the encrypted message of length + 16 bytes; a call that sends a message,
\* the init included, and returns Ok has written exactly one; and no call
\* ever writes message bytes in plaintext.
C22_EveryMessageIsOneNoiseFrame ==
    /\ \A i \in DOMAIN wlast.wrote : wlast.wrote[i].kind # "plain"
    /\ wlast.before.noise_step = "NoiseComplete" =>
          /\ \A i \in DOMAIN wlast.wrote :
                /\ wlast.wrote[i].kind = "frame"
                /\ wlast.wrote[i].hdr.len = 18
                /\ wlast.wrote[i].hdr.plain = U16ToBe(Len(wlast.wrote[i].body.plain))
                /\ wlast.wrote[i].body.len = Len(wlast.wrote[i].body.plain) + 16
          /\ (wlast.op \in {"send_init", "send_message"} /\ wlast.res.tag = "Ok")
                => Len(wlast.wrote) = 1


\* C23: the Noise state machine of a connection.  The state moves only
\* forward, ActOne to ActTwo (Act One sent) and ActTwo to Complete (Act Two
\* processed, Act Three emitted), and only a handshake call that found it at
\* ActOne moves it; a handshake call that finds a later state fails with a
\* protocol violation and leaves the state as it was; and a send or a read
\* on a connection whose state is not Complete encrypts and decrypts nothing.
C23_NoiseStateMovesForwardOnly ==
    /\ wenc.noise_step # wlast.before.noise_step =>
          /\ wlast.op = "handshake"
          /\ wlast.before.noise_step = "ActOne"
          /\ wenc.noise_step \in {"ActTwo", "NoiseComplete"}
    /\ (wlast.op = "handshake" /\ wlast.before.noise_step # "ActOne") =>
          /\ wlast.res = Err("ProtocolViolation")
          /\ wenc = wlast.before
    /\ wlast.before.noise_step # "NoiseComplete" =>
          /\ wlast.used = <<>>
          /\ \A i \in DOMAIN wlast.wrote : wlast.wrote[i].kind # "frame"


\* C24: key rotation after exactly 1000 messages.  A send that encrypts when
\* 1000 messages have been encrypted with the current sending key takes the
\* next key, (sck, sk) = HKDF(sck, sk), and encrypts its header with nonce 0;
\* a send at any smaller count keeps sk and sck.  The same for a receive,
\* with rk, rck, rn and the count of messages decrypted with the current
\* receiving key.
C24_KeyRotatesAfter1000Messages ==
    /\ (wlast.op = "send_message" /\ wlast.used # <<>>) =>
          IF wlast.hist.sent_with_key = 1000
          THEN /\ wenc.sk = hkdf_extract_expand_twice(wlast.before.sck,
                                                      wlast.before.sk).k
               /\ wenc.sck = hkdf_extract_expand_twice(wlast.before.sck,
                                                       wlast.before.sk).ck
               /\ wlast.used[1] = <<wenc.sk, 0>>
          ELSE /\ wlast.hist.sent_with_key < 1000
               /\ wenc.sk = wlast.before.sk
               /\ wenc.sck = wlast.before.sck
    /\ (wlast.op = "read_next_message" /\ wlast.used # <<>>) =>
          IF wlast.hist.received_with_key = 1000
          THEN /\ wenc.rk = hkdf_extract_expand_twice(wlast.before.rck,
                                                      wlast.before.rk).k
               /\ wenc.rck = hkdf_extract_expand_twice(wlast.before.rck,
                                                       wlast.before.rk).ck
               /\ wlast.used[1] = <<wenc.rk, 0>>
          ELSE /\ wlast.hist.received_with_key < 1000
               /\ wenc.rk = wlast.before.rk
               /\ wenc.rck = wlast.before.rck


\* C25: nonce use.  A send encrypts the length header with the sending nonce
\* sn (0 when this send took a new key) and the body with sn + 1, both under
\* one key, and leaves sn two higher; a receive decrypts header and body
\* with rn and rn + 1 in the same way.  Each (key, nonce) pair a call uses is
\* later than every pair used before in that direction: under one key the
\* nonce only grows, a new key is never an earlier one, so no pair is used
\* twice.
C25_NoncesInOrderAndNeverReused ==
    /\ (wlast.op = "send_message" /\ wlast.res.tag # "Panic") =>
          /\ Len(wlast.used) = 2
          /\ wlast.used[1][1] = wenc.sk
          /\ wlast.used[2][1] = wenc.sk
          /\ wlast.used[1][2] = IF wenc.sk = wlast.before.sk
                                THEN wlast.before.sn ELSE 0
          /\ wlast.used[2][2] = wlast.used[1][2] + 1
          /\ wenc.sn = wlast.used[1][2] + 2
          /\ wenc.sk >= wlast.before.sk
          /\ Later(wlast.hist.sent_last, wlast.used[1]) = wlast.used[1]
          /\ wlast.hist.sent_last # wlast.used[1]
    /\ (wlast.op = "read_next_message" /\ wlast.res.tag # "Panic"
        /\ wlast.used # <<>>) =>
          /\ Len(wlast.used) = 2
          /\ wlast.used[1][1] = wenc.rk
          /\ wlast.used[2][1] = wenc.rk
          /\ wlast.used[1][2] = IF wenc.rk = wlast.before.rk
                                THEN wlast.before.rn ELSE 0
          /\ wlast.used[2][2] = wlast.used[1][2] + 1
          /\ wenc.rn = wlast.used[1][2] + 2
          /\ wenc.rk >= wlast.before.rk
          /\ Later(wlast.hist.received_last, wlast.used[1]) = wlast.used[1]
          /\ wlast.hist.received_last # wlast.used[1]
    /\ (wlast.op = "read_next_message" /\ wlast.res.tag = "Panic") =>
          \A i \in DOMAIN wlast.used :
              /\ Later(wlast.hist.received_last, wlast.used[i]) = wlast.used[i]
              /\ wlast.hist.received_last # wlast.used[i]

\* A message has been received after the sending key was rotated, and the
\* send before the rotation and the send after it used different keys
C25_Witness ==
    /\ wlast.op = "read_next_message"
    /\ wlast.res.tag = "Ok"
    /\ Len(wlast.used) = 2
    /\ wenc.sk = 1
    /\ whist.sent_last = <<1, 1>>
    /\ wlast.used[1][2] > 0


\* C26: the two directions are independent.  A send leaves rk, rck, rn and
\* the count of messages received with the current receiving key as they
\* were, also when it rotates the sending key; a receive leaves sk, sck, sn
\* and the count of messages sent with the current sending key as they were.
C26_DirectionsAreIndependent ==
    /\ wlast.op = "send_message" =>
          /\ wenc.rk = wlast.before.rk
          /\ wenc.rck = wlast.before.rck
          /\ wenc.rn = wlast.before.rn
          /\ whist.received_with_key = wlast.hist.received_with_key
    /\ wlast.op = "read_next_message" =>
          /\ wenc.sk = wlast.before.sk
          /\ wenc.sck = wlast.before.sck
          /\ wenc.sn = wlast.before.sn
          /\ whist.sent_with_key = wlast.hist.sent_with_key

\* A send has just rotated the sending key on a connection that has
\* received messages
C26_Witness ==
    /\ wlast.op = "send_message"
    /\ wlast.before.sk = 0
    /\ wenc.sk = 1
    /\ wenc.rn > 0
    /\ whist.received_with_key > 0


\* C27: every primitive decode is total.  Whatever bytes a primitive's
\* from_bytes is given, also fewer than the primitive needs, it returns a
\* value and a remainder, or the error TooFewBytes or InvalidValue: it never
\* aborts.
C27_PrimitiveDecodeIsTotal ==
    cstep \in {"prim_decoded", "value_decoded"} =>
        \/ decoded.tag = "Ok"
        \/ decoded = Err("TooFewBytes")
        \/ decoded = Err("InvalidValue")


\* C28: node_addresses round trip.  For every node_addresses input made of
\* entries of the types 1 to 5 in any order (IPv6 entries, several entries
\* of one type and a DNS entry with an empty hostname included), the decode
\* gives a value, and that value encoded, followed by the remainder of the
\* decode, is the input.
C28_NodeAddressesRoundTrip ==
    input \in ValidNodeAddressesInputs =>
        /\ cstep = "prim_decoded" => decoded.tag = "Ok"
        /\ cstep = "prim_encoded" => reencoded = input.bytes


\* C29: short_channel_id is a bijection.  Encoding (block, tx, output) with
\* block and tx below 2^24 and output below 2^16 gives the 8 bytes 3-byte
\* big-endian block, 3-byte big-endian tx, 2-byte big-endian output, and
\* decoding them gives (block, tx, output) back with an empty remainder;
\* decoding any 8 bytes gives a value with an empty remainder, and encoding
\* it gives the 8 bytes back.
C29_ShortChannelIdBijection ==
    /\ (input.form = "value" /\ cstep \in {"value_encoded", "value_decoded"}) =>
          reencoded = <<(input.value.block_height \div 65536) % 256,
                        (input.value.block_height \div 256) % 256,
                        input.value.block_height % 256,
                        (input.value.tx_index \div 65536) % 256,
                        (input.value.tx_index \div 256) % 256,
                        input.value.tx_index % 256,
                        input.value.output_index \div 256,
                        input.value.output_index % 256>>
    /\ (input.form = "value" /\ cstep = "value_decoded") =>
          decoded = Ok(input.value, <<>>)
    /\ (input \in ScidByteInputs /\ Len(input.bytes) = 8) =>
          /\ cstep \in {"prim_decoded", "prim_encoded"} =>
                decoded.tag = "Ok" /\ decoded.rest = <<>>
          /\ cstep = "prim_encoded" => reencoded = input.bytes

\* The largest block with a tx and an output of more than one byte has been
\* encoded and decoded again
C29_Witness ==
    /\ cstep = "value_decoded"
    /\ input.value = [block_height |-> 16777215, tx_index |-> 65536,
                      output_index |-> 256]
    /\ reencoded = <<255, 255, 255, 1, 0, 0, 1, 0>>

\* C30: the spec's short_channel_id example, as the code decodes it.  The
\* bytes 00 00 01 00 00 00 02 00 03 decode to block 1, tx 0, output 512, and
\* the ninth byte, 03, is the remainder; the bytes that decode to block 256,
\* tx 2, output 3 are 00 01 00 00 00 02 00 03.
C30_ScidExampleDecodesToBlock1 ==
    (cstep = "prim_decoded" /\ input.kind = "ShortChannelIDElement") =>
        /\ input.bytes = <<0, 0, 1, 0, 0, 0, 2, 0, 3>> =>
              decoded = Ok([block_height |-> 1, tx_index |-> 0,
                            output_index |-> 512], <<3>>)
        /\ input.bytes = <<0, 1, 0, 0, 0, 2, 0, 3>> =>
              decoded = Ok([block_height |-> 256, tx_index |-> 2,
                            output_index |-> 3], <<>>)

\* C30 as the spec has it: those bytes decode to block 256, tx 2, output 3
C30_ScidExampleDecodesToBlock256 ==
    (cstep = "prim_decoded" /\ input.kind = "ShortChannelIDElement"
     /\ input.bytes = <<0, 0, 1, 0, 0, 0, 2, 0, 3>>)
        => /\ decoded.tag = "Ok"
           /\ decoded.value = [block_height |-> 256, tx_index |-> 2,
                               output_index |-> 3]

\* The nine bytes of the example have been decoded
C30_Witness ==
    /\ cstep = "prim_decoded"
    /\ input.kind = "ShortChannelIDElement"
    /\ input.bytes = <<0, 0, 1, 0, 0, 0, 2, 0, 3>>
    /\ decoded.tag = "Ok"


\* C31: the pong of the spec's ping scenario.  When the ping
\* 00 12 00 05 00 03 00 00 00 (5 pong bytes requested, 3 ignored zero bytes)
\* has been handled and the write did not fail, the one plaintext written, on
\* the connection the ping came from, is the nine bytes
\* 00 13 00 05 00 00 00 00 00: type 19, length 5 and five zero bytes.
C31_PongOfScenarioIsNineBytes ==
    (/\ last.op = "handle_inbound_message"
     /\ last.message = [type |-> "Ping", num_pong_bytes |-> 5,
                        ignored |-> <<0, 0, 0>>]
     /\ last.ret # "NodeConnectionError")
        => last.writes = <<<<last.key, <<0, 19, 0, 5, 0, 0, 0, 0, 0>>>>>>

\* C31 as the spec has it: the plaintext is the eight bytes 00 13 00 05 00 00 00 00
C31_PongOfScenarioIsEightBytes ==
    (/\ last.op = "handle_inbound_message"
     /\ last.message = [type |-> "Ping", num_pong_bytes |-> 5,
                        ignored |-> <<0, 0, 0>>]
     /\ last.ret # "NodeConnectionError")
        => last.writes = <<<<last.key, <<0, 19, 0, 5, 0, 0, 0, 0>>>>>>

\* The ping of the scenario has been handled and its pong written
C31_Witness ==
    /\ last.op = "handle_inbound_message"
    /\ last.message = [type |-> "Ping", num_pong_bytes |-> 5,
                       ignored |-> <<0, 0, 0>>]
    /\ last.ret = "Ok"
    /\ Len(last.writes) = 1


\* C32: handshake consumes exactly the 50 bytes of Act Two.  When handshake
\* has sent Act One on a socket of which nothing was read yet and its read
\* met no I/O error, it asked for no more than the 50 bytes of Act Two, it
\* consumed none beyond the 50th, it did not abort, and when the remote's
\* Act Two arrived in pieces it still read all 50 bytes before processing.
C32_HandshakeReadsExactlyActTwo ==
    (/\ wlast.op = "handshake"
     /\ wlast.pos = 0
     /\ Len(wlast.reads) = 1
     /\ wlast.reads[1][2] > 0)
        => /\ wlast.reads[1][1] = 50
           /\ sock.pos = 50
           /\ wlast.res.tag # "Panic"

\* C33: read_next_message decrypts a body only when the read gave exactly
\* the length + 16 bytes asked for, however TCP cut the frame, and after a
\* read that returned a message the socket is at the start of a frame.
C33_BodyDecryptedAfterExactRead ==
    wlast.op = "read_next_message"
        => /\ Len(wlast.decrypted) = 2
                => wlast.decrypted[2] = wlast.reads[2][1]
           /\ wlast.res.tag = "Ok"
                => \E j \in 0..MaxStreamFrames :
                      sock.pos = UnitStart(sock.units, 2 * j + 2)


\* C34: every message handed to the transport fits one frame.  When a ping
\* or a gossip_timestamp_filter from a connection of the map has been
\* handled, the reply the peer built for it encodes to at most 65535 bytes and
\* send_message took it without aborting; the length prefix of a pong is the
\* number of its ignored bytes.
C34_RepliesFitOneFrame ==
    (/\ last.op = "handle_inbound_message"
     /\ last.message.type \in {"Ping", "GossipTimestampFilter"}
     /\ last.panic # "handle_inbound_message: no connection")
        => /\ last.panic = "none"
           /\ Len(MessageContainer_to_bytes(
                      IF last.message.type = "Ping"
                      THEN PongMessage_from_ping(last.message)
                      ELSE OurFilter(last.message))) <= 65535
           /\ last.message.type = "Ping" =>
                 U16FromBe(Drop(PongMessage_to_bytes(
                                    PongMessage_from_ping(last.message)), 2))
                    = last.message.num_pong_bytes


\* C35: node_addresses entries by discriminator.  A payload of one entry
\* decodes to that entry stored with all its bytes, 6 for discriminator 1, 18
\* for 2, 12 for 3, 37 for 4 and the rest of the payload for 5, or to
\* InvalidValue for another discriminator, and the bytes after the payload
\* are the remainder; a payload of several entries decodes to a value with
\* that remainder or to InvalidValue.
C35_NodeAddressesEntries ==
    (cstep = "prim_decoded" /\ input \in AnyNodeAddressesInputs) =>
        /\ decoded.tag = "Ok" \/ decoded = Err("InvalidValue")
        /\ \A e \in AddrEntries, r \in {<<>>, <<9>>} :
              input.bytes = Sized(e) \o r =>
                 decoded =
                    CASE e[1] = 1 ->
                            Ok([NoAddresses EXCEPT
                                   !.ipv4_addresses = <<Drop(e, 1)>>], r)
                      [] e[1] = 2 ->
                            Ok([NoAddresses EXCEPT
                                   !.ipv6_addresses = <<Drop(e, 1)>>], r)
                      [] e[1] = 3 ->
                            Ok([NoAddresses EXCEPT
                                   !.torv2_addresses = <<Drop(e, 1)>>], r)
                      [] e[1] = 4 ->
                            Ok([NoAddresses EXCEPT
                                   !.torv3_addresses = <<Drop(e, 1)>>], r)
                      [] e[1] = 5 ->
                            Ok([NoAddresses EXCEPT
                                   !.dns_hostname = Drop(e, 1)], r)
                      [] OTHER -> Err("InvalidValue")


\* C36: one message per connection per pass, dispatched after the reads.  In
\* a pass no two of the messages read come from one connection, and no more
\* messages are read than the pass found connections; a message of the pass
\* is dispatched only when every connection has been read and no connection
\* whose read gave an I/O error is left in the map; the frames of one
\* connection are dispatched in the order they arrived, those still unread in
\* its socket after those dispatched.
C36_OnePerConnectionPerPass ==
    /\ \A i, j \in DOMAIN inbounds : i # j => inbounds[i][2] # inbounds[j][2]
    /\ pass.read_ok <= Cardinality(pass.start_ids)
    /\ pass.handled + Len(inbounds) = pass.read_ok
    /\ pass.handled > 0 =>
          /\ to_visit = {}
          /\ pc \in {"dispatch", "panicked"}
          /\ \A e \in pass.io_errors :
                ~(/\ e[1] \in DOMAIN peer.node_connections
                  /\ peer.node_connections[e[1]].id = e[2])
    /\ \A k \in DOMAIN peer.node_connections :
          /\ \A p, q \in DOMAIN peer.node_connections[k].dispatched :
                p < q => peer.node_connections[k].dispatched[p][1]
                            < peer.node_connections[k].dispatched[q][1]
          /\ \A p \in DOMAIN peer.node_connections[k].dispatched,
                q \in DOMAIN peer.node_connections[k].inq :
                peer.node_connections[k].dispatched[p][1]
                   < peer.node_connections[k].inq[q].seq

\* C36 happens: two frames arrived on one connection, and the second has
\* just been dispatched in a pass that read and handled that one message only
C36_Witness ==
    /\ last.op = "handle_inbound_message"
    /\ last.key \in DOMAIN peer.node_connections
    /\ Len(peer.node_connections[last.key].dispatched) = 2
    /\ peer.node_connections[last.key].dispatched[1][1] = 1
    /\ peer.node_connections[last.key].dispatched[2][1] = 2
    /\ pass.read_ok = 1
    /\ pass.handled = 1

\* C37: the key of a dispatched message is in the map.  Every message
\* waiting in inbounds names a connection that is in the map, through the
\* reads, the removal of the disconnected and the opens of the pass, so no
\* call of handle_inbound_message fails to find its connection.
C37_DispatchedKeyIsInMap ==
    /\ \A i \in DOMAIN inbounds : inbounds[i][2] \in DOMAIN peer.node_connections
    /\ last.op = "handle_inbound_message" =>
          last.panic # "handle_inbound_message: no connection"

\* C37 happens: in a pass one connection was removed after an I/O error, and
\* the node_announcement read from the other was dispatched and opened a
\* connection
C37_Witness ==
    /\ last.op = "handle_inbound_message"
    /\ last.message.type = "NodeAnnouncement"
    /\ last.open_result = "Ok"
    /\ pass.io_errors # {}
    /\ last.key \in DOMAIN peer.node_connections


\* C38: one connection per key.  In every step num_connections grows by
\* one at most.  A step in which open_node_connection returned Ok for a key
\* leaves the map with the keys it had and that key, the key's connection
\* being the new one, so an open for a key the map already holds replaces
\* the stored connection and leaves num_connections as it was; a step
\* without such an open adds no key.
C38_OneConnectionPerKey ==
    [][LET opened ==
               /\ last'.open_result = "Ok"
               /\ \/ setup_opens' # setup_opens
                  \/ pass'.handled # pass.handled
           key == IF last'.op = "open_node_connection" THEN last'.key
                  ELSE last'.message.node_id
       IN
       /\ MiniPeer_num_connections(peer') <= MiniPeer_num_connections(peer) + 1
       /\ opened =>
             /\ DOMAIN peer'.node_connections =
                   DOMAIN peer.node_connections \cup {key}
             /\ peer'.node_connections[key].id = peer.next_id
             /\ key \in DOMAIN peer.node_connections =>
                   /\ peer.node_connections[key].id # peer.next_id
                   /\ MiniPeer_num_connections(peer') =
                         MiniPeer_num_connections(peer)
       /\ ~opened =>
             DOMAIN peer'.node_connections \subseteq DOMAIN peer.node_connections
      ]_vars

\* C38 happens: open_node_connection has returned Ok for a key the map
\* already held, and the map holds the one new connection for it
C38_Witness ==
    /\ last.op = "open_node_connection"
    /\ last.had_key
    /\ last.open_result = "Ok"
    /\ MiniPeer_num_connections(peer) = 1
    /\ peer.node_connections[last.key].id = 2

=============================================================================
